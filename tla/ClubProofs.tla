----------------------------- MODULE ClubProofs -----------------------------
(***************************************************************************)
(* Theorems about Community, CommunityPage, ClubCalendar and ExamScopes,   *)
(* the modules that MCClub checks side by side, each for any values of its *)
(* constants.  They share no state and no lemma.                           *)
(***************************************************************************)
EXTENDS MCClub, FiniteSetTheorems, SequenceTheorems, TLAPS

-----------------------------------------------------------------------------
(***************************************************************************)
(* Community: reports and their results.                                   *)
(***************************************************************************)

LEMMA NoWorkTyped == NoWork \notin Filing /\ NoWork \notin Resolving /\ NoWork.pc = "none"
  BY DEF NoWork, Filing, Resolving

\* The shape of a request, by what it does next.
LEMMA WorkShape ==
  ASSUME CommunityTypeOK, NEW r \in Request
  PROVE  /\ work[r].pc = "file" => work[r] \in Filing
         /\ work[r].pc \in {"delete", "list", "close", "tell"} => work[r] \in Resolving
  BY DEF CommunityTypeOK, NoWork, Filing, Resolving

LEMMA ReportPair ==
  ASSUME NEW x \in Report
  PROVE  x[1] \in Member /\ x[2] \in Target
  BY DEF Report

LEMMA GotoTyped ==
  ASSUME CommunityTypeOK, NEW r \in Request, NEW state \in {NoWork} \cup Filing \cup Resolving,
         Goto(r, state)
  PROVE  work' \in [Request -> {NoWork} \cup Filing \cup Resolving]
  BY DEF CommunityTypeOK, Goto

LEMMA WithoutTyped ==
  ASSUME CommunityTypeOK, NEW t \in Target
  PROVE  Without(t) \in [Target -> {"none", "there", "gone"}]
  BY DEF CommunityTypeOK, Without

LEMMA CommunityTypeInit == CommunityInit => CommunityTypeOK
  BY DEF CommunityInit, CommunityTypeOK

LEMMA CommunityTypeStep == CommunityTypeOK /\ [CommunityNext]_communityVars => CommunityTypeOK'
<1> SUFFICES ASSUME CommunityTypeOK, [CommunityNext]_communityVars PROVE CommunityTypeOK'
  OBVIOUS
<1> USE DEF CommunityTypeOK
<1>1. ASSUME NEW t \in Target, Publish(t) PROVE CommunityTypeOK'
  BY <1>1 DEF Publish
<1>2. ASSUME NEW t \in Target, Withdraw(t) PROVE CommunityTypeOK'
  BY <1>2, WithoutTyped DEF Withdraw
<1>3. ASSUME NEW r \in Request, Find(r) PROVE CommunityTypeOK'
  BY <1>3, GotoTyped DEF Find, Filing
<1>4. ASSUME NEW r \in Request, File(r) PROVE CommunityTypeOK'
  <2>1. work[r].of \in Report
    BY <1>4, WorkShape DEF File, Filing
  <2>2. report' \in [Report -> {"NONE", "PENDING"} \cup Verdict] /\ missed' \in SUBSET Report
    BY <1>4, <2>1 DEF File
  <2> QED
    BY <1>4, <2>2, GotoTyped DEF File
<1>5. ASSUME NEW r \in Request, Open(r) PROVE CommunityTypeOK'
  <2>1. PICK x \in Report, verdict \in Verdict :
          /\ Goto(r, [pc |-> FirstStep(verdict), t |-> x[2], verdict |-> verdict, tell |-> {}])
          /\ contested' \in {contested, contested \cup {x[2]}}
    BY <1>5 DEF Open
  <2>2. [pc |-> FirstStep(verdict), t |-> x[2], verdict |-> verdict, tell |-> {}] \in Resolving
    BY ReportPair DEF Resolving, FirstStep
  <2> QED
    BY <1>5, <2>1, <2>2, GotoTyped, ReportPair DEF Open
<1>6. ASSUME NEW r \in Request, Delete(r) PROVE CommunityTypeOK'
  <2>1. work[r] \in Resolving
    BY <1>6, WorkShape DEF Delete
  <2>2. [work[r] EXCEPT !.pc = "list"] \in Resolving /\ work[r].t \in Target
    BY <2>1 DEF Resolving
  <2> QED
    BY <1>6, <2>2, GotoTyped, WithoutTyped DEF Delete
<1>7. ASSUME NEW r \in Request, List(r) PROVE CommunityTypeOK'
  <2>1. work[r] \in Resolving
    BY <1>7, WorkShape DEF List
  <2>2. [work[r] EXCEPT !.pc = "close", !.tell = PendingOn(work[r].t)] \in Resolving
    BY <2>1 DEF Resolving, PendingOn
  <2> QED
    BY <1>7, <2>2, GotoTyped DEF List
<1>8. ASSUME NEW r \in Request, Close(r) PROVE CommunityTypeOK'
  <2>1. work[r] \in Resolving
    BY <1>8, WorkShape DEF Close
  <2>2. [work[r] EXCEPT !.pc = "tell"] \in Resolving /\ work[r].verdict \in Verdict
    BY <2>1 DEF Resolving
  <2> QED
    BY <1>8, <2>2, GotoTyped DEF Close
<1>9. ASSUME NEW r \in Request, Tell(r) PROVE CommunityTypeOK'
  <2>1. work[r] \in Resolving
    BY <1>9, WorkShape DEF Tell
  <2>2. work[r].verdict \in Verdict /\ work[r].t \in Target /\ work[r].tell \subseteq Member
        /\ \A m \in Member : [work[r] EXCEPT !.tell = @ \ {m}] \in Resolving
    BY <2>1 DEF Resolving
  <2>3. CASE Recipients(r) = {}
    BY <1>9, <2>3, GotoTyped DEF Tell
  <2>4. CASE Recipients(r) # {}
    <3>1. PICK m \in Recipients(r) :
            /\ told' = [told EXCEPT ![<<m, work[r].t>>] = @ \cup {work[r].verdict}]
            /\ Goto(r, [work[r] EXCEPT !.tell = @ \ {m}])
      BY <1>9, <2>4 DEF Tell
    <3>2. m \in Member
      BY <2>2 DEF Recipients
    <3>3. told' \in [Report -> SUBSET Verdict]
      BY <2>2, <3>1
    <3> QED
      BY <1>9, <2>2, <3>1, <3>2, <3>3, GotoTyped DEF Tell
  <2> QED
    BY <2>3, <2>4
<1>10. ASSUME NEW r \in Request, Stop(r) PROVE CommunityTypeOK'
  <2>1. work[r].pc = "tell" => work[r].t \in Target /\ work[r].tell \subseteq Member
    BY <1>10, WorkShape DEF Resolving
  <2>2. missed' \in SUBSET Report
    BY <1>10, <2>1 DEF Stop, Report
  <2> QED
    BY <1>10, <2>2, GotoTyped DEF Stop
<1> QED
  BY <1>1, <1>2, <1>3, <1>4, <1>5, <1>6, <1>7, <1>8, <1>9, <1>10 DEF CommunityNext, communityVars

\* Targets, reports, notices and requests have their types.
THEOREM CommunityTyped == CommunitySpec => []CommunityTypeOK
  BY CommunityTypeInit, CommunityTypeStep, PTL DEF CommunitySpec

-----------------------------------------------------------------------------
(* What is reported exists or has existed, and what a resolution claims to *)
(* have deleted is gone: nothing brings a deleted row back.                *)

Resolves(r) == work[r].pc \in {"delete", "list", "close", "tell"}

ReportedExists == \A x \in Report : report[x] # "NONE" => target[x[2]] # "none"

WorkExists(r) ==
  /\ work[r].pc = "file" => target[work[r].of[2]] # "none"
  /\ Resolves(r) => target[work[r].t] # "none"
  /\ Resolves(r) /\ work[r].pc # "delete" /\ work[r].verdict = "ACTION_TAKEN"
       => target[work[r].t] = "gone"

GoneInv == ActionTakenIsGone /\ ReportedExists /\ \A r \in Request : WorkExists(r)

LEMMA GoneInit == CommunityInit => GoneInv
  BY DEF CommunityInit, GoneInv, ActionTakenIsGone, ReportedExists, WorkExists, NoWork, Resolves

\* Where no target appears or goes back, and no request moves on, nothing is to be shown.
LEMMA TargetsOnly ==
  ASSUME CommunityTypeOK, GoneInv, report' = report, work' = work,
         \A u \in Target : /\ target[u] # "none" => target'[u] # "none"
                           /\ target[u] = "gone" => target'[u] = "gone"
  PROVE  GoneInv'
<1>1. \A r \in Request : /\ work[r].pc = "file" => work[r].of[2] \in Target
                         /\ Resolves(r) => work[r].t \in Target
  BY WorkShape, ReportPair DEF Filing, Resolving, Resolves
<1>2. ActionTakenIsGone'
  BY ReportPair DEF GoneInv, ActionTakenIsGone
<1>3. ReportedExists'
  BY ReportPair DEF GoneInv, ReportedExists
<1>4. ASSUME NEW r \in Request PROVE WorkExists(r)'
  <2>1. WorkExists(r)
    BY DEF GoneInv
  <2> QED
    BY <1>1, <2>1 DEF WorkExists, Resolves
<1> QED
  BY <1>2, <1>3, <1>4 DEF GoneInv

\* Where targets stay as they are, only the request that moves and the reports it changes
\* are to be shown.
LEMMA RequestOnly ==
  ASSUME CommunityTypeOK, GoneInv, NEW r \in Request, NEW state, Goto(r, state), target' = target,
         \A x \in Report :
           report'[x] = report[x] \/ (/\ report'[x] # "NONE" => target[x[2]] # "none"
                                      /\ report'[x] = "ACTION_TAKEN" => target[x[2]] = "gone"),
         state.pc = "file" => target[state.of[2]] # "none",
         state.pc \in {"delete", "list", "close", "tell"} =>
           /\ target[state.t] # "none"
           /\ state.pc # "delete" /\ state.verdict = "ACTION_TAKEN" => target[state.t] = "gone"
  PROVE  GoneInv'
<1>1. work'[r] = state /\ \A q \in Request \ {r} : work'[q] = work[q]
  BY DEF Goto, CommunityTypeOK
<1>2. ActionTakenIsGone'
  BY DEF GoneInv, ActionTakenIsGone
<1>3. ReportedExists'
  BY DEF GoneInv, ReportedExists
<1>4. WorkExists(r)'
  BY <1>1 DEF WorkExists, Resolves
<1>5. ASSUME NEW q \in Request \ {r} PROVE WorkExists(q)'
  BY <1>1, <1>5 DEF GoneInv, WorkExists, Resolves
<1> QED
  BY <1>2, <1>3, <1>4, <1>5 DEF GoneInv

LEMMA GoneStep == CommunityTypeOK /\ GoneInv /\ [CommunityNext]_communityVars => GoneInv'
<1> SUFFICES ASSUME CommunityTypeOK, GoneInv, [CommunityNext]_communityVars PROVE GoneInv'
  OBVIOUS
<1>1. ASSUME NEW t \in Target, Publish(t) PROVE GoneInv'
  <2>1. \A u \in Target : /\ target[u] # "none" => target'[u] # "none"
                          /\ target[u] = "gone" => target'[u] = "gone"
    BY <1>1 DEF Publish, CommunityTypeOK
  <2> QED
    BY <1>1, <2>1, TargetsOnly DEF Publish
<1>2. ASSUME NEW t \in Target, Withdraw(t) PROVE GoneInv'
  <2>1. \A u \in Target : /\ target[u] # "none" => target'[u] # "none"
                          /\ target[u] = "gone" => target'[u] = "gone"
    BY <1>2 DEF Withdraw, Without, CommunityTypeOK
  <2> QED
    BY <1>2, <2>1, TargetsOnly DEF Withdraw
<1>3. ASSUME NEW r \in Request, Find(r) PROVE GoneInv'
  <2>1. PICK x \in Report : target[x[2]] = "there" /\ Goto(r, [pc |-> "file", of |-> x])
    BY <1>3 DEF Find
  <2> QED
    BY <1>3, <2>1, RequestOnly DEF Find
<1>4. ASSUME NEW r \in Request, File(r) PROVE GoneInv'
  <2>1. work[r].of \in Report /\ target[work[r].of[2]] # "none"
    BY <1>4, WorkShape DEF File, Filing, GoneInv, WorkExists
  <2>2. \A x \in Report :
          report'[x] = report[x] \/ (report'[x] = "PENDING" /\ target[x[2]] # "none")
    BY <1>4, <2>1 DEF File, CommunityTypeOK
  <2> QED
    BY <1>4, <2>2, RequestOnly DEF File, NoWork
<1>5. ASSUME NEW r \in Request, Open(r) PROVE GoneInv'
  <2>1. PICK x \in Report, verdict \in Verdict :
          /\ report[x] = "PENDING"
          /\ Goto(r, [pc |-> FirstStep(verdict), t |-> x[2], verdict |-> verdict, tell |-> {}])
    BY <1>5 DEF Open
  <2>2. target[x[2]] # "none" /\ FirstStep(verdict) = "list" => verdict # "ACTION_TAKEN"
    BY <2>1 DEF GoneInv, ReportedExists, FirstStep
  <2>3. target[x[2]] # "none" /\ FirstStep(verdict) \in {"delete", "list"}
    BY <2>1 DEF GoneInv, ReportedExists, FirstStep
  <2> QED
    BY <1>5, <2>1, <2>2, <2>3, RequestOnly DEF Open
<1>6. ASSUME NEW r \in Request, Delete(r) PROVE GoneInv'
  <2>1. work[r] \in Resolving /\ work[r].t \in Target /\ target[work[r].t] # "none"
    BY <1>6, WorkShape DEF Delete, Resolving, Resolves, GoneInv, WorkExists
  <2>2. \A u \in Target : /\ target[u] # "none" => target'[u] # "none"
                          /\ target[u] = "gone" => target'[u] = "gone"
    BY <1>6 DEF Delete, Without, CommunityTypeOK
  <2>3. target'[work[r].t] = "gone"
    BY <1>6, <2>1 DEF Delete, Without, Under, CommunityTypeOK
  <2>4. /\ work'[r].t = work[r].t /\ work'[r].pc = "list"
        /\ \A q \in Request \ {r} : work'[q] = work[q]
    BY <1>6, <2>1 DEF Delete, Goto, CommunityTypeOK, Resolving
  <2>5. \A q \in Request : /\ work[q].pc = "file" => work[q].of[2] \in Target
                           /\ Resolves(q) => work[q].t \in Target
    BY WorkShape, ReportPair DEF Filing, Resolving, Resolves
  <2>6. report' = report
    BY <1>6 DEF Delete
  <2>7. ActionTakenIsGone'
    BY <2>2, <2>6, ReportPair DEF GoneInv, ActionTakenIsGone
  <2>8. ReportedExists'
    BY <2>2, <2>6, ReportPair DEF GoneInv, ReportedExists
  <2>9. WorkExists(r)'
    BY <2>3, <2>4 DEF WorkExists, Resolves
  <2>10. ASSUME NEW q \in Request \ {r} PROVE WorkExists(q)'
    <3>1. WorkExists(q)
      BY DEF GoneInv
    <3> QED
      BY <2>2, <2>4, <2>5, <3>1 DEF WorkExists, Resolves
  <2> QED
    BY <2>7, <2>8, <2>9, <2>10 DEF GoneInv
<1>7. ASSUME NEW r \in Request, List(r) PROVE GoneInv'
  <2>1. work[r] \in Resolving /\ target[work[r].t] # "none"
        /\ (work[r].verdict = "ACTION_TAKEN" => target[work[r].t] = "gone")
    BY <1>7, WorkShape DEF List, GoneInv, WorkExists, Resolves
  <2> DEFINE next == [work[r] EXCEPT !.pc = "close", !.tell = PendingOn(work[r].t)]
  <2>2. next.pc = "close" /\ next.t = work[r].t /\ next.verdict = work[r].verdict
    BY <2>1 DEF Resolving
  <2>3. Goto(r, next) /\ target' = target /\ report' = report
    BY <1>7 DEF List
  <2> HIDE DEF next
  <2> QED
    BY <2>1, <2>2, <2>3, RequestOnly
<1>8. ASSUME NEW r \in Request, Close(r) PROVE GoneInv'
  <2>1. work[r] \in Resolving /\ target[work[r].t] # "none"
        /\ (work[r].verdict = "ACTION_TAKEN" => target[work[r].t] = "gone")
    BY <1>8, WorkShape DEF Close, GoneInv, WorkExists, Resolves
  <2> DEFINE next == [work[r] EXCEPT !.pc = "tell"]
  <2>2. next.pc = "tell" /\ next.t = work[r].t /\ next.verdict = work[r].verdict
    BY <2>1 DEF Resolving
  <2>3. Goto(r, next) /\ target' = target
    BY <1>8 DEF Close
  <2>4. \A x \in Report :
          report'[x] = report[x] \/ (x[2] = work[r].t /\ report'[x] = work[r].verdict)
    BY <1>8 DEF Close, Closes
  <2> HIDE DEF next
  <2> QED
    BY <2>1, <2>2, <2>3, <2>4, RequestOnly
<1>9. ASSUME NEW r \in Request, Tell(r) PROVE GoneInv'
  <2>1. work[r] \in Resolving /\ target[work[r].t] # "none"
        /\ (work[r].verdict = "ACTION_TAKEN" => target[work[r].t] = "gone")
    BY <1>9, WorkShape DEF Tell, GoneInv, WorkExists, Resolves
  <2>2. target' = target /\ report' = report
    BY <1>9 DEF Tell
  <2>3. CASE Goto(r, NoWork)
    BY <2>2, <2>3, RequestOnly DEF NoWork
  <2>4. ASSUME NEW m \in Recipients(r), Goto(r, [work[r] EXCEPT !.tell = @ \ {m}]) PROVE GoneInv'
    <3> DEFINE next == [work[r] EXCEPT !.tell = @ \ {m}]
    <3>1. next.pc = "tell" /\ next.t = work[r].t /\ next.verdict = work[r].verdict
      BY <1>9, <2>1 DEF Resolving, Tell
    <3>2. Goto(r, next)
      BY <2>4
    <3> HIDE DEF next
    <3> QED
      BY <2>1, <2>2, <3>1, <3>2, RequestOnly
  <2> QED
    BY <1>9, <2>3, <2>4 DEF Tell
<1>10. ASSUME NEW r \in Request, Stop(r) PROVE GoneInv'
  BY <1>10, RequestOnly DEF Stop, NoWork
<1>11. CASE UNCHANGED communityVars
  BY <1>11 DEF communityVars, GoneInv, ActionTakenIsGone, ReportedExists, WorkExists, Resolves
<1> QED
  BY <1>1, <1>2, <1>3, <1>4, <1>5, <1>6, <1>7, <1>8, <1>9, <1>10, <1>11 DEF CommunityNext

\* A report closed as acted upon names a target that is gone, wherever a resolution stopped
\* and whoever else wrote, deleted or resolved beside it.
THEOREM ActionIsTaken == CommunitySpec => []ActionTakenIsGone
<1>1. GoneInv => ActionTakenIsGone
  BY DEF GoneInv
<1> QED
  BY <1>1, CommunityTypeInit, CommunityTypeStep, GoneInit, GoneStep, PTL DEF CommunitySpec

-----------------------------------------------------------------------------
(* What a resolution knows of the reports it closes and of their authors.  *)

Acting(r) == work[r].pc \in {"delete", "list", "close"}

\* Of two requests that act on one target at the same time the second has seen the first.
Contest ==
  \A r, q \in Request :
    r # q /\ Acting(r) /\ Acting(q) /\ work[r].t = work[q].t => work[r].t \in contested

\* Before the closing every pending report is listed, but for those filed since.
Listed(r) ==
  work[r].pc = "close" =>
    \A x \in Report \ missed : x[2] = work[r].t /\ report[x] = "PENDING" => x[1] \in work[r].tell

\* What is to be told is what the closing will record, or has recorded.
Sure(r) ==
  \A x \in Report : x[2] = work[r].t /\ x[1] \in work[r].tell /\ x[2] \notin contested =>
    /\ work[r].pc = "close" => report[x] = "PENDING"
    /\ work[r].pc = "tell" => report[x] = work[r].verdict

ToldInv ==
  /\ ClosedIsTold /\ ToldWhatWasRecorded /\ Contest
  /\ \A r \in Request : Listed(r) /\ Sure(r)

Announces(r, x) == work[r].pc = "tell" /\ work[r].t = x[2] /\ x[1] \in work[r].tell

LEMMA ToldInit == CommunityInit => ToldInv
<1> SUFFICES ASSUME CommunityInit PROVE ToldInv
  OBVIOUS
<1> USE DEF CommunityInit, NoWork
<1>1. ClosedIsTold
  BY DEF ClosedIsTold, Verdict
<1>2. ToldWhatWasRecorded
  BY ReportPair DEF ToldWhatWasRecorded
<1> QED
  BY <1>1, <1>2 DEF ToldInv, Contest, Acting, Listed, Sure

LEMMA PairIsReport ==
  ASSUME NEW x \in Report, NEW m, NEW t
  PROVE  x = <<m, t>> <=> x[1] = m /\ x[2] = t
  BY DEF Report

\* A step of one request that changes no report, and at most stops telling somebody who has
\* been told or counts as missed.
LEMMA QuietStep ==
  ASSUME CommunityTypeOK, ToldInv, NEW r \in Request, NEW state, Goto(r, state),
         report' = report, told' = told, contested \subseteq contested', missed \subseteq missed',
         state.pc \notin {"close", "tell"},
         work[r].pc # "tell" \/ \A x \in Report : Announces(r, x) => x \in missed',
         state.pc \in {"delete", "list"} =>
           state.t \in contested' \/ \A q \in Request \ {r} : Acting(q) => work[q].t # state.t
  PROVE  ToldInv'
<1>1. work'[r] = state /\ \A q \in Request \ {r} : work'[q] = work[q]
  BY DEF Goto, CommunityTypeOK
<1>2. ClosedIsTold'
  <2> SUFFICES ASSUME NEW x \in Report \ missed', report[x] \in Verdict, told[x] = {}
               PROVE  \E q \in Request : Announces(q, x)'
    BY DEF ClosedIsTold, Announces
  <2>1. PICK q \in Request : Announces(q, x)
    BY DEF ToldInv, ClosedIsTold, Announces
  <2>2. q # r
    BY <2>1 DEF Announces
  <2> QED
    BY <1>1, <2>1, <2>2 DEF Announces
<1>3. ToldWhatWasRecorded'
  BY DEF ToldInv, ToldWhatWasRecorded
<1>4. Contest'
  BY <1>1 DEF ToldInv, Contest, Acting
<1>5. ASSUME NEW q \in Request PROVE Listed(q)' /\ Sure(q)'
  <2>1. CASE q = r
    BY <1>1, <2>1 DEF Listed, Sure
  <2>2. CASE q # r
    BY <1>1, <2>2 DEF ToldInv, Listed, Sure
  <2> QED
    BY <2>1, <2>2
<1> QED
  BY <1>2, <1>3, <1>4, <1>5 DEF ToldInv

LEMMA FileKeeps ==
  ASSUME CommunityTypeOK, ToldInv, NEW r \in Request, File(r) PROVE ToldInv'
<1>1. /\ work[r].pc = "file" /\ work'[r] = NoWork
      /\ \A q \in Request \ {r} : work'[q] = work[q]
      /\ told' = told /\ contested' = contested /\ missed \subseteq missed'
  BY DEF File, Goto, CommunityTypeOK
<1>2. \A q \in Request : work[q].pc \in {"close", "tell"} => q # r /\ work'[q] = work[q]
  BY <1>1
<1>3. ASSUME NEW x \in Report, report'[x] # report[x]
      PROVE  /\ report[x] = "NONE" /\ report'[x] = "PENDING"
             /\ \A q \in Request : work[q].pc = "close" /\ work[q].t = x[2] => x \in missed'
  <2>1. work[r].of \in Report
    BY <1>1, WorkShape DEF Filing
  <2> QED
    BY <1>3, <2>1 DEF File, CommunityTypeOK
<1>4. ClosedIsTold'
  <2> SUFFICES ASSUME NEW x \in Report \ missed', report'[x] \in Verdict, told[x] = {}
               PROVE  \E q \in Request : Announces(q, x)'
    BY <1>1 DEF ClosedIsTold, Announces
  <2>1. report[x] \in Verdict /\ x \notin missed
    BY <1>1, <1>3 DEF Verdict
  <2>2. PICK q \in Request : Announces(q, x)
    BY <2>1 DEF ToldInv, ClosedIsTold, Announces
  <2> QED
    BY <1>2, <2>2 DEF Announces
<1>5. ToldWhatWasRecorded'
  <2> SUFFICES ASSUME NEW x \in Report, x[2] \notin contested, NEW v \in told[x]
               PROVE  report'[x] = v
    BY <1>1 DEF ToldWhatWasRecorded
  <2>1. report[x] = v /\ v \in Verdict
    BY DEF ToldInv, ToldWhatWasRecorded, CommunityTypeOK
  <2> QED
    BY <1>3, <2>1 DEF Verdict
<1>6. Contest'
  BY <1>1 DEF ToldInv, Contest, Acting, NoWork
<1>7. ASSUME NEW q \in Request PROVE Listed(q)'
  <2> SUFFICES ASSUME work'[q].pc = "close", NEW x \in Report \ missed',
                      x[2] = work'[q].t, report'[x] = "PENDING"
               PROVE  x[1] \in work'[q].tell
    BY DEF Listed
  <2>1. q # r /\ work'[q] = work[q]
    BY <1>1 DEF NoWork
  <2>2. report[x] = "PENDING" /\ x \notin missed
    BY <1>1, <1>3, <2>1
  <2> QED
    BY <2>1, <2>2 DEF ToldInv, Listed
<1>8. ASSUME NEW q \in Request PROVE Sure(q)'
  <2> SUFFICES ASSUME NEW x \in Report, x[2] = work'[q].t, x[1] \in work'[q].tell,
                      x[2] \notin contested, work'[q].pc \in {"close", "tell"}
               PROVE  /\ work'[q].pc = "close" => report'[x] = "PENDING"
                      /\ work'[q].pc = "tell" => report'[x] = work'[q].verdict
    BY <1>1 DEF Sure
  <2>1. q # r /\ work'[q] = work[q] /\ work[q] \in Resolving
    BY <1>1, WorkShape DEF NoWork
  <2>2. /\ work[q].pc = "close" => report[x] = "PENDING"
        /\ work[q].pc = "tell" => report[x] = work[q].verdict
    BY <2>1 DEF ToldInv, Sure
  <2> QED
    BY <1>3, <2>1, <2>2 DEF Resolving, Verdict
<1> QED
  BY <1>4, <1>5, <1>6, <1>7, <1>8 DEF ToldInv

LEMMA ListKeeps ==
  ASSUME CommunityTypeOK, ToldInv, NEW r \in Request, List(r) PROVE ToldInv'
<1>1. /\ work[r].pc = "list" /\ work[r] \in Resolving
      /\ report' = report /\ told' = told /\ missed' = missed /\ contested' = contested
      /\ \A q \in Request \ {r} : work'[q] = work[q]
  BY WorkShape DEF List, Goto, CommunityTypeOK
<1>2. work'[r].pc = "close" /\ work'[r].t = work[r].t /\ work'[r].tell = PendingOn(work[r].t)
  BY <1>1 DEF List, Goto, CommunityTypeOK, Resolving
<1>3. ClosedIsTold'
  <2> SUFFICES ASSUME NEW x \in Report \ missed, report[x] \in Verdict, told[x] = {}
               PROVE  \E q \in Request : Announces(q, x)'
    BY <1>1 DEF ClosedIsTold, Announces
  <2>1. PICK q \in Request : Announces(q, x)
    BY DEF ToldInv, ClosedIsTold, Announces
  <2> QED
    BY <1>1, <2>1 DEF Announces
<1>4. ToldWhatWasRecorded'
  BY <1>1 DEF ToldInv, ToldWhatWasRecorded
<1>5. Contest'
  BY <1>1, <1>2 DEF ToldInv, Contest, Acting
<1>6. Listed(r)' /\ Sure(r)'
  <2>1. \A x \in Report : x[2] = work[r].t => (x[1] \in PendingOn(work[r].t) <=> report[x] = "PENDING")
    BY ReportPair, PairIsReport DEF PendingOn
  <2> QED
    BY <1>1, <1>2, <2>1 DEF Listed, Sure
<1>7. ASSUME NEW q \in Request \ {r} PROVE Listed(q)' /\ Sure(q)'
  BY <1>1, <1>7 DEF ToldInv, Listed, Sure
<1> QED
  BY <1>3, <1>4, <1>5, <1>6, <1>7 DEF ToldInv

LEMMA CloseKeeps ==
  ASSUME CommunityTypeOK, ToldInv, NEW r \in Request, Close(r) PROVE ToldInv'
<1>1. /\ work[r].pc = "close" /\ work[r] \in Resolving /\ work[r].verdict \in Verdict
      /\ told' = told /\ missed' = missed /\ contested' = contested
      /\ \A q \in Request \ {r} : work'[q] = work[q]
  BY WorkShape DEF Close, Goto, CommunityTypeOK, Resolving
<1>2. /\ work'[r].pc = "tell" /\ work'[r].t = work[r].t /\ work'[r].tell = work[r].tell
      /\ work'[r].verdict = work[r].verdict
  BY <1>1 DEF Close, Goto, CommunityTypeOK, Resolving
<1>3. \A x \in Report :
        report'[x] = IF x[2] = work[r].t /\ report[x] = "PENDING" THEN work[r].verdict ELSE report[x]
  BY DEF Close, Closes
<1>4. ClosedIsTold'
  <2> SUFFICES ASSUME NEW x \in Report \ missed, report'[x] \in Verdict, told[x] = {}
               PROVE  \E q \in Request : Announces(q, x)'
    BY <1>1 DEF ClosedIsTold, Announces
  <2>1. CASE report[x] = "PENDING" /\ x[2] = work[r].t
    BY <1>1, <1>2, <2>1 DEF ToldInv, Listed, Announces
  <2>2. CASE ~(report[x] = "PENDING" /\ x[2] = work[r].t)
    <3>1. PICK q \in Request : Announces(q, x)
      BY <1>3, <2>2 DEF ToldInv, ClosedIsTold, Announces
    <3> QED
      BY <1>1, <3>1 DEF Announces
  <2> QED
    BY <2>1, <2>2
<1>5. ToldWhatWasRecorded'
  <2> SUFFICES ASSUME NEW x \in Report, x[2] \notin contested, NEW v \in told[x]
               PROVE  report'[x] = v
    BY <1>1 DEF ToldWhatWasRecorded
  <2>1. report[x] = v /\ v \in Verdict
    BY DEF ToldInv, ToldWhatWasRecorded, CommunityTypeOK
  <2> QED
    BY <1>3, <2>1 DEF Verdict
<1>6. Contest'
  BY <1>1, <1>2 DEF ToldInv, Contest, Acting
<1>7. Listed(r)' /\ Sure(r)'
  BY <1>1, <1>2, <1>3 DEF ToldInv, Listed, Sure
<1>8. ASSUME NEW q \in Request \ {r} PROVE Listed(q)'
  BY <1>1, <1>3, <1>8 DEF ToldInv, Listed, Verdict
<1>9. ASSUME NEW q \in Request \ {r} PROVE Sure(q)'
  <2> SUFFICES ASSUME NEW x \in Report, x[2] = work[q].t, x[1] \in work[q].tell,
                      x[2] \notin contested, work[q].pc \in {"close", "tell"}
               PROVE  /\ work[q].pc = "close" => report'[x] = "PENDING"
                      /\ work[q].pc = "tell" => report'[x] = work[q].verdict
    BY <1>1, <1>9 DEF Sure
  <2>1. /\ work[q].pc = "close" => report[x] = "PENDING"
        /\ work[q].pc = "tell" => report[x] = work[q].verdict
    BY <1>9 DEF ToldInv, Sure
  <2>2. work[q].pc = "close" => x[2] # work[r].t
    BY <1>1, <1>9 DEF ToldInv, Contest, Acting
  <2>3. work[q].verdict \in Verdict
    BY <1>9, WorkShape DEF Resolving
  <2> QED
    BY <1>3, <2>1, <2>2, <2>3 DEF Verdict
<1> QED
  BY <1>4, <1>5, <1>6, <1>7, <1>8, <1>9 DEF ToldInv

LEMMA TellOneKeeps ==
  ASSUME CommunityTypeOK, ToldInv, NEW r \in Request, work[r].pc = "tell",
         NEW m \in work[r].tell,
         told' = [told EXCEPT ![<<m, work[r].t>>] = @ \cup {work[r].verdict}],
         Goto(r, [work[r] EXCEPT !.tell = @ \ {m}]),
         report' = report, missed' = missed, contested' = contested
  PROVE  ToldInv'
<1>1. /\ work[r] \in Resolving /\ work[r].t \in Target /\ m \in Member
      /\ \A q \in Request \ {r} : work'[q] = work[q]
  BY WorkShape DEF Goto, CommunityTypeOK, Resolving
<1>2. /\ work'[r].pc = "tell" /\ work'[r].t = work[r].t /\ work'[r].tell = work[r].tell \ {m}
      /\ work'[r].verdict = work[r].verdict
  BY <1>1 DEF Goto, CommunityTypeOK, Resolving
<1>3. ASSUME NEW x \in Report
      PROVE  told'[x] = IF x[1] = m /\ x[2] = work[r].t THEN told[x] \cup {work[r].verdict}
                        ELSE told[x]
  <2>1. x = <<m, work[r].t>> <=> x[1] = m /\ x[2] = work[r].t
    BY PairIsReport
  <2> QED
    BY <2>1 DEF CommunityTypeOK
<1>4. ClosedIsTold'
  <2> SUFFICES ASSUME NEW x \in Report \ missed, report[x] \in Verdict, told'[x] = {}
               PROVE  \E q \in Request : Announces(q, x)'
    BY DEF ClosedIsTold, Announces
  <2>1. told[x] = {} /\ ~(x[1] = m /\ x[2] = work[r].t)
    <3>1. CASE x[1] = m /\ x[2] = work[r].t
      <4>1. told'[x] = told[x] \cup {work[r].verdict}
        BY <1>3, <3>1
      <4>2. work[r].verdict \in told'[x]
        BY <4>1
      <4> QED
        BY <4>2
    <3>2. CASE ~(x[1] = m /\ x[2] = work[r].t)
      <4>1. told'[x] = told[x]
        BY <1>3, <3>2
      <4> QED
        BY <3>2, <4>1
    <3> QED
      BY <3>1, <3>2
  <2>2. PICK q \in Request : Announces(q, x)
    BY <2>1 DEF ToldInv, ClosedIsTold, Announces
  <2>3. Announces(q, x)'
    BY <1>1, <1>2, <2>1, <2>2 DEF Announces
  <2> QED
    BY <2>3
<1>5. ToldWhatWasRecorded'
  <2> SUFFICES ASSUME NEW x \in Report, x[2] \notin contested, NEW v \in told'[x]
               PROVE  report[x] = v
    BY DEF ToldWhatWasRecorded
  <2>1. CASE v \in told[x]
    BY <2>1 DEF ToldInv, ToldWhatWasRecorded
  <2>2. CASE v \notin told[x]
    <3>1. x[1] = m /\ x[2] = work[r].t /\ v = work[r].verdict
      BY <1>3, <2>2
    <3> QED
      BY <3>1 DEF ToldInv, Sure
  <2> QED
    BY <2>1, <2>2
<1>6. Contest'
  BY <1>1, <1>2 DEF ToldInv, Contest, Acting
<1>7. Listed(r)' /\ Sure(r)'
  BY <1>1, <1>2 DEF ToldInv, Listed, Sure
<1>8. ASSUME NEW q \in Request \ {r} PROVE Listed(q)' /\ Sure(q)'
  BY <1>1, <1>8 DEF ToldInv, Listed, Sure
<1> QED
  BY <1>4, <1>5, <1>6, <1>7, <1>8 DEF ToldInv

-----------------------------------------------------------------------------

LEMMA ToldStep == CommunityTypeOK /\ ToldInv /\ [CommunityNext]_communityVars => ToldInv'
<1> SUFFICES ASSUME CommunityTypeOK, ToldInv, [CommunityNext]_communityVars PROVE ToldInv'
  OBVIOUS
<1>1. CASE UNCHANGED <<report, told, work, missed, contested>>
  BY <1>1 DEF ToldInv, ClosedIsTold, ToldWhatWasRecorded, Contest, Acting, Listed, Sure
<1>2. ASSUME NEW r \in Request, Find(r) PROVE ToldInv'
  BY <1>2, QuietStep DEF Find, NoWork
<1>3. ASSUME NEW r \in Request, Open(r) PROVE ToldInv'
  <2>1. PICK x \in Report, verdict \in Verdict :
          /\ Goto(r, [pc |-> FirstStep(verdict), t |-> x[2], verdict |-> verdict, tell |-> {}])
          /\ contested' = IF \E q \in Request : work[q].pc \in {"delete", "list", "close"} /\ work[q].t = x[2]
                          THEN contested \cup {x[2]} ELSE contested
    BY <1>3 DEF Open
  <2>2. FirstStep(verdict) \in {"delete", "list"} /\ work[r].pc = "none"
    BY <1>3 DEF FirstStep, Open, NoWork
  <2>3. x[2] \in contested' \/ \A q \in Request \ {r} : Acting(q) => work[q].t # x[2]
    BY <2>1 DEF Acting
  <2> QED
    BY <1>3, <2>1, <2>2, <2>3, QuietStep DEF Open
<1>4. ASSUME NEW r \in Request, Delete(r) PROVE ToldInv'
  <2> DEFINE next == [work[r] EXCEPT !.pc = "list"]
  <2>1. next.pc = "list" /\ next.t = work[r].t /\ work[r].pc = "delete"
    BY <1>4, WorkShape DEF Delete, Resolving
  <2>2. work[r].t \in contested \/ \A q \in Request \ {r} : Acting(q) => work[q].t # work[r].t
    BY <2>1 DEF ToldInv, Contest, Acting
  <2>3. Goto(r, next) /\ UNCHANGED <<report, told, missed, contested>>
    BY <1>4 DEF Delete
  <2> HIDE DEF next
  <2> QED
    BY <2>1, <2>2, <2>3, QuietStep
<1>5. ASSUME NEW r \in Request, Tell(r) PROVE ToldInv'
  <2>1. CASE Recipients(r) = {}
    <3>1. \A x \in Report : ~Announces(r, x)
      BY <2>1 DEF Recipients, Announces
    <3>2. Goto(r, NoWork) /\ UNCHANGED <<report, told, missed, contested>>
      BY <1>5, <2>1 DEF Tell
    <3>3. NoWork.pc = "none"
      BY DEF NoWork
    <3> QED
      BY <3>1, <3>2, <3>3, QuietStep
  <2>2. CASE Recipients(r) # {}
    BY <1>5, <2>2, TellOneKeeps DEF Tell, Recipients
  <2> QED
    BY <2>1, <2>2
<1>6. ASSUME NEW r \in Request, Stop(r) PROVE ToldInv'
  <2>1. work[r].pc # "tell" \/ \A x \in Report : Announces(r, x) => x \in missed'
    <3> SUFFICES ASSUME work[r].pc = "tell", NEW x \in Report, Announces(r, x) PROVE x \in missed'
      OBVIOUS
    <3>1. x = <<x[1], work[r].t>> /\ x[1] \in work[r].tell
      BY ReportPair, PairIsReport DEF Announces
    <3> QED
      BY <1>6, <3>1 DEF Stop
  <2> QED
    BY <1>6, <2>1, QuietStep DEF Stop, NoWork
<1> QED
  BY <1>1, <1>2, <1>3, <1>4, <1>5, <1>6, FileKeeps, ListKeeps, CloseKeeps
  DEF CommunityNext, communityVars, Publish, Withdraw

LEMMA ToldHolds == CommunitySpec => []ToldInv
  BY CommunityTypeInit, CommunityTypeStep, ToldInit, ToldStep, PTL DEF CommunitySpec

\* Nobody's report is closed in silence but where it was filed between the listing and the
\* closing, or where the process stopped before its notice.
THEOREM SilenceIsARace == CommunitySpec => []ClosedIsTold
<1>1. ToldInv => ClosedIsTold
  BY DEF ToldInv
<1> QED
  BY <1>1, ToldHolds, PTL

\* A notice says what was recorded, unless two requests resolved one target together.
THEOREM NoticesAreTrue == CommunitySpec => []ToldWhatWasRecorded
<1>1. ToldInv => ToldWhatWasRecorded
  BY DEF ToldInv
<1> QED
  BY <1>1, ToldHolds, PTL

-----------------------------------------------------------------------------
(* The page of a post.                                                     *)

\* What a press tells of what is stored and what is shown, if it is the only one.
Follows(w) ==
  /\ w.op \in {"none", "vote", "toggle", "comment"} => shown = stored
  /\ w.op = "toggle" => w.existing = stored.vote
  /\ w.op \in {"sum", "summed"} => shown.comments = stored.comments
  /\ w.op = "summed" => w.vote = stored.vote
  /\ w.op \in {"posted", "reload", "reloaded"} => shown.vote = stored.vote
  /\ w.op = "reloaded" => w.state = stored

OnePress ==
  ~overlapped => /\ \A p, q \in Press : press[p] # NoPress /\ press[q] # NoPress => p = q
                 /\ \A p \in Press : press[p] # NoPress => Follows(press[p])
                 /\ Settled => shown = stored

LEMMA PressHas ==
  ASSUME CommunityPageTypeOK, NEW p \in Press
  PROVE  /\ NoPress.op = "none"
         /\ press[p].op \in {"vote", "toggle"} => press[p].value \in {-1, 1}
         /\ press[p].op = "toggle" => press[p].existing \in Vote
         /\ press[p].op = "summed" => press[p].vote \in Vote
         /\ press[p].op = "reloaded" => press[p].state \in State
  BY DEF CommunityPageTypeOK, Presses, NoPress

LEMMA PressIs ==
  ASSUME CommunityPageTypeOK, NEW p \in Press, NEW s, Becomes(p, s)
  PROVE  press'[p] = s /\ \A q \in Press \ {p} : press'[q] = press[q]
  BY DEF CommunityPageTypeOK, Becomes

LEMMA StateIs ==
  ASSUME NEW a \in State, NEW b \in State, a.vote = b.vote, a.comments = b.comments
  PROVE  a = b
  BY DEF State

LEMMA PageTypeInit == CommunityPageInit => CommunityPageTypeOK
<1> SUFFICES ASSUME CommunityPageInit PROVE CommunityPageTypeOK
  OBVIOUS
<1>1. stored \in State
  BY CommunityPageAssumption DEF CommunityPageInit, State, Vote
<1>2. press \in [Press -> Presses]
  BY DEF CommunityPageInit, Presses
<1> QED
  BY <1>1, <1>2 DEF CommunityPageInit, CommunityPageTypeOK

LEMMA PageTypeStep ==
  CommunityPageTypeOK /\ [CommunityPageNext]_communityPageVars => CommunityPageTypeOK'
<1> SUFFICES ASSUME CommunityPageTypeOK, [CommunityPageNext]_communityPageVars
             PROVE  CommunityPageTypeOK'
  OBVIOUS
<1>1. ASSUME NEW p \in Press, NEW s \in Presses, Becomes(p, s) PROVE press' \in [Press -> Presses]
  BY <1>1 DEF CommunityPageTypeOK, Becomes
<1>2. /\ stored \in State /\ shown \in State /\ overlapped \in BOOLEAN
      /\ NoPress \in Presses /\ \A o \in {"sum", "comment", "posted", "reload"} : [op |-> o] \in Presses
  BY DEF CommunityPageTypeOK, Presses
<1>3. ASSUME NEW p \in Press, PressVote(p) PROVE CommunityPageTypeOK'
  <2>1. \A v \in {-1, 1} : [op |-> "vote", value |-> v] \in Presses
    BY DEF Presses
  <2> QED
    BY <1>1, <1>2, <1>3, <2>1 DEF PressVote, CommunityPageTypeOK
<1>4. ASSUME NEW p \in Press, ReadVote(p) PROVE CommunityPageTypeOK'
  <2>1. \A v \in {-1, 1}, e \in Vote : [op |-> "toggle", value |-> v, existing |-> e] \in Presses
    BY DEF Presses
  <2>2. press[p].value \in {-1, 1} /\ stored.vote \in Vote
    BY <1>2, <1>4, PressHas DEF ReadVote, State
  <2> QED
    BY <1>1, <1>2, <1>4, <2>1, <2>2 DEF ReadVote, CommunityPageTypeOK
<1>5. ASSUME NEW p \in Press, WriteVote(p) PROVE CommunityPageTypeOK'
  <2>1. Toggled(press[p].existing, press[p].value) \in Vote
    BY <1>5, PressHas DEF WriteVote, Toggled, Vote
  <2>2. \A v \in Vote : [stored EXCEPT !.vote = v] \in State
    BY <1>2 DEF State
  <2>3. stored' \in State
    BY <1>2, <1>5, <2>1, <2>2 DEF WriteVote
  <2>4. press' \in [Press -> Presses]
    BY <1>1, <1>2, <1>5 DEF WriteVote
  <2> QED
    BY <1>2, <1>5, <2>3, <2>4 DEF WriteVote, CommunityPageTypeOK
<1>6. ASSUME NEW p \in Press, SumVotes(p) PROVE CommunityPageTypeOK'
  <2>1. \A v \in Vote : [op |-> "summed", vote |-> v] \in Presses
    BY DEF Presses
  <2>2. stored.vote \in Vote
    BY <1>2 DEF State
  <2> QED
    BY <1>1, <1>2, <1>6, <2>1, <2>2 DEF SumVotes, CommunityPageTypeOK
<1>7. ASSUME NEW p \in Press, ShowVote(p) PROVE CommunityPageTypeOK'
  <2>1. \A v \in Vote : [shown EXCEPT !.vote = v] \in State
    BY <1>2 DEF State
  <2>2. press[p].vote \in Vote
    BY <1>7, PressHas DEF ShowVote
  <2> QED
    BY <1>1, <1>2, <1>7, <2>1, <2>2 DEF ShowVote, CommunityPageTypeOK
<1>8. ASSUME NEW p \in Press, AddComment(p) PROVE CommunityPageTypeOK'
  <2>1. stored.comments + 1 \in 0..MaxComments
    BY <1>2, <1>8, CommunityPageAssumption DEF AddComment, State
  <2>2. \A n \in 0..MaxComments : [stored EXCEPT !.comments = n] \in State
    BY <1>2 DEF State
  <2>3. stored' \in State
    BY <1>8, <2>1, <2>2, Zenon DEF AddComment
  <2> QED
    BY <1>1, <1>2, <1>8, <2>3 DEF AddComment, CommunityPageTypeOK
<1>9. ASSUME NEW p \in Press, PressComment(p) \/ ReloadPost(p) \/ PressFails(p)
      PROVE  CommunityPageTypeOK'
  BY <1>1, <1>2, <1>9 DEF PressComment, ReloadPost, AfterPost, PressFails, CommunityPageTypeOK
<1>10. ASSUME NEW p \in Press, GetPost(p) PROVE CommunityPageTypeOK'
  <2>1. [op |-> "reloaded", state |-> stored] \in Presses
    BY <1>2 DEF Presses
  <2> QED
    BY <1>1, <1>2, <1>10, <2>1 DEF GetPost, CommunityPageTypeOK
<1>11. ASSUME NEW p \in Press, ShowPost(p) PROVE CommunityPageTypeOK'
  <2>1. press[p].state \in State
    BY <1>11, PressHas DEF ShowPost
  <2>2. \A n \in 0..MaxComments : [shown EXCEPT !.comments = n] \in State
    BY <1>2 DEF State
  <2>3. press[p].state.comments \in 0..MaxComments
    BY <2>1 DEF State
  <2>4. shown' \in State
    BY <1>11, <2>1, <2>2, <2>3, Zenon DEF ShowPost
  <2> QED
    BY <1>1, <1>2, <1>11, <2>4 DEF ShowPost, CommunityPageTypeOK
<1>12. CASE OpenPost \/ UNCHANGED communityPageVars
  BY <1>12 DEF OpenPost, communityPageVars, CommunityPageTypeOK
<1> QED
  BY <1>3, <1>4, <1>5, <1>6, <1>7, <1>8, <1>9, <1>10, <1>11, <1>12 DEF CommunityPageNext

\* The only press moves on.
LEMMA PressMoves ==
  ASSUME CommunityPageTypeOK, OnePress, NEW p \in Press, press[p] # NoPress \/ Settled,
         NEW s, Becomes(p, s), ~overlapped, s = NoPress => (shown = stored)',
         s # NoPress => Follows(s)'
  PROVE  OnePress'
<1>1. press'[p] = s /\ \A q \in Press \ {p} : press'[q] = press[q] /\ press[q] = NoPress
  BY PressIs DEF OnePress, Settled
<1> QED
  BY <1>1 DEF OnePress, Settled

LEMMA OnePressStep ==
  CommunityPageTypeOK /\ OnePress /\ [CommunityPageNext]_communityPageVars => OnePress'
<1> SUFFICES ASSUME CommunityPageTypeOK, OnePress, [CommunityPageNext]_communityPageVars,
                    ~overlapped'
             PROVE  OnePress'
  BY DEF OnePress
<1>1. \A p \in Press : ~overlapped /\ press[p] # NoPress => Follows(press[p])
  BY DEF OnePress
<1>2. NoPress.op = "none" /\ stored \in State /\ shown \in State
  BY DEF NoPress, CommunityPageTypeOK
<1>3. ASSUME NEW p \in Press, PressVote(p) \/ PressComment(p) PROVE OnePress'
  <2>1. ~overlapped /\ Settled /\ shown = stored /\ UNCHANGED <<stored, shown>>
    BY <1>3 DEF PressVote, PressComment, CommunityPageTypeOK, OnePress
  <2>2. PICK s : Becomes(p, s) /\ s.op \in {"vote", "comment"}
    BY <1>3 DEF PressVote, PressComment
  <2>3. Follows(s)'
    BY <2>1, <2>2 DEF Follows
  <2> QED
    BY <1>2, <2>1, <2>2, <2>3, PressMoves
<1>4. ASSUME NEW p \in Press, ReadVote(p) PROVE OnePress'
  <2>1. ~overlapped /\ press[p] # NoPress /\ shown = stored /\ UNCHANGED <<stored, shown>>
    BY <1>1, <1>2, <1>4 DEF ReadVote, Follows
  <2>2. PICK s : Becomes(p, s) /\ s.op = "toggle" /\ s.existing = stored.vote
    BY <1>4 DEF ReadVote
  <2>3. Follows(s)'
    BY <2>1, <2>2 DEF Follows
  <2> QED
    BY <1>2, <2>1, <2>2, <2>3, PressMoves
<1>5. ASSUME NEW p \in Press, WriteVote(p) PROVE OnePress'
  <2>1. ~overlapped /\ press[p] # NoPress /\ shown = stored /\ shown' = shown
    BY <1>1, <1>2, <1>5 DEF WriteVote, Follows
  <2>2. CASE Becomes(p, NoPress) /\ stored' = stored
    BY <2>1, <2>2, PressMoves
  <2>3. CASE \E v : stored' = [stored EXCEPT !.vote = v] /\ Becomes(p, [op |-> "sum"])
    <3>1. stored'.comments = stored.comments
      BY <1>2, <2>3 DEF State
    <3>2. Follows([op |-> "sum"])'
      BY <2>1, <3>1 DEF Follows
    <3> QED
      BY <1>2, <2>1, <2>3, <3>2, PressMoves
  <2> QED
    BY <1>5, <2>2, <2>3, Zenon DEF WriteVote
<1>6. ASSUME NEW p \in Press, SumVotes(p) PROVE OnePress'
  <2>1. /\ ~overlapped /\ press[p] # NoPress /\ shown.comments = stored.comments
        /\ UNCHANGED <<stored, shown>>
    BY <1>1, <1>2, <1>6 DEF SumVotes, Follows
  <2>2. PICK s : Becomes(p, s) /\ s.op = "summed" /\ s.vote = stored.vote
    BY <1>6 DEF SumVotes
  <2>3. Follows(s)'
    BY <2>1, <2>2 DEF Follows
  <2> QED
    BY <1>2, <2>1, <2>2, <2>3, PressMoves
<1>7. ASSUME NEW p \in Press, ShowVote(p) PROVE OnePress'
  <2>1. /\ ~overlapped /\ press[p] # NoPress /\ shown.comments = stored.comments
        /\ stored' = stored /\ press[p].vote = stored.vote
    BY <1>1, <1>2, <1>7 DEF ShowVote, Follows
  <2>2. shown' \in State /\ shown'.vote = stored.vote /\ shown'.comments = stored.comments
    <3>1. shown'.vote = press[p].vote /\ shown'.comments = shown.comments
      BY <1>2, <1>7 DEF ShowVote, State
    <3> QED
      BY <2>1, <3>1, PageTypeStep DEF CommunityPageTypeOK
  <2>3. shown' = stored
    BY <1>2, <2>2, StateIs
  <2> QED
    BY <1>7, <2>1, <2>3, PressMoves DEF ShowVote
<1>8. ASSUME NEW p \in Press, AddComment(p) PROVE OnePress'
  <2>1. ~overlapped /\ press[p] # NoPress /\ shown = stored /\ shown' = shown
    BY <1>1, <1>2, <1>8 DEF AddComment, Follows
  <2>2. stored'.vote = stored.vote
    BY <1>2, <1>8 DEF AddComment, State
  <2>3. Follows([op |-> "posted"])'
    BY <2>1, <2>2 DEF Follows
  <2> QED
    BY <1>2, <1>8, <2>1, <2>3, PressMoves DEF AddComment
<1>9. ASSUME NEW p \in Press, ReloadPost(p) PROVE OnePress'
  <2>1. /\ ~overlapped /\ press[p] # NoPress /\ shown.vote = stored.vote
        /\ UNCHANGED <<stored, shown>>
    BY <1>1, <1>2, <1>9 DEF ReloadPost, Follows
  <2>2. Follows([op |-> "reload"])'
    BY <2>1 DEF Follows
  <2> QED
    BY <1>2, <1>9, <2>1, <2>2, PressMoves DEF ReloadPost, AfterPost
<1>10. ASSUME NEW p \in Press, GetPost(p) PROVE OnePress'
  <2>1. /\ ~overlapped /\ press[p] # NoPress /\ shown.vote = stored.vote
        /\ UNCHANGED <<stored, shown>>
    BY <1>1, <1>2, <1>10 DEF GetPost, Follows
  <2>2. PICK s : Becomes(p, s) /\ s.op = "reloaded" /\ s.state = stored
    BY <1>10 DEF GetPost
  <2>3. Follows(s)'
    BY <2>1, <2>2 DEF Follows
  <2> QED
    BY <1>2, <2>1, <2>2, <2>3, PressMoves
<1>11. ASSUME NEW p \in Press, ShowPost(p) PROVE OnePress'
  <2>1. /\ ~overlapped /\ press[p] # NoPress /\ shown.vote = stored.vote
        /\ stored' = stored /\ press[p].state = stored
    BY <1>1, <1>2, <1>11 DEF ShowPost, Follows
  <2>2. CASE shown' = press[p].state
    BY <1>11, <2>1, <2>2, PressMoves DEF ShowPost
  <2>3. CASE shown' = [shown EXCEPT !.comments = press[p].state.comments]
    <3>1. shown'.vote = shown.vote /\ shown'.comments = stored.comments
      BY <1>2, <2>1, <2>3 DEF State
    <3>2. shown' \in State
      BY PageTypeStep DEF CommunityPageTypeOK
    <3>3. shown' = stored
      BY <1>2, <2>1, <3>1, <3>2, StateIs
    <3> QED
      BY <1>11, <2>1, <3>3, PressMoves DEF ShowPost
  <2> QED
    BY <1>11, <2>2, <2>3 DEF ShowPost
<1>12. ASSUME NEW p \in Press, PressFails(p) PROVE FALSE
  BY <1>12 DEF PressFails
<1>13. CASE OpenPost
  BY <1>13 DEF OpenPost, OnePress, Settled
<1>14. CASE UNCHANGED communityPageVars
  BY <1>14 DEF communityPageVars, OnePress, Settled, Follows
<1> QED
  BY <1>3, <1>4, <1>5, <1>6, <1>7, <1>8, <1>9, <1>10, <1>11, <1>12, <1>13, <1>14
     DEF CommunityPageNext

\* A member who waits for the answer to each press sees what is stored of his vote and of
\* the comments, for any number of presses and comments.
THEOREM PageFollowsPost == CommunityPageSpec => []PageShowsStored
<1>1. CommunityPageInit => CommunityPageTypeOK /\ OnePress
  BY PageTypeInit DEF CommunityPageInit, OnePress, Settled
<1>2. /\ CommunityPageTypeOK /\ OnePress /\ [CommunityPageNext]_communityPageVars
      => (CommunityPageTypeOK /\ OnePress)'
  BY PageTypeStep, OnePressStep
<1>3. OnePress => PageShowsStored
  BY DEF OnePress, PageShowsStored
<1> QED
  BY <1>1, <1>2, <1>3, PTL DEF CommunityPageSpec

-----------------------------------------------------------------------------
(***************************************************************************)
(* ClubCalendar.                                                           *)
(***************************************************************************)

\* A request for the list whose answer will be shown.
Current(t) == task[t].op \in {"load", "loaded"} /\ task[t].newest

MonthStrayed == kind = "oj" /\ "month" \in strayed
EditStrayed == kind = "home" /\ "edit" \in strayed

\* The list is of the month in view, or another is on its way that is.
ListInv ==
  ~MonthStrayed =>
    /\ \A t \in Task : Current(t) => /\ task[t].op = "load" => task[t].of = page.month
                                     /\ task[t].op = "loaded" => task[t].list.of = page.month
    /\ \/ page.list = Nothing \/ page.list.of = page.month
       \/ \E t \in Task : Current(t)

\* An operation on s that has been carried out and whose reload is still to come.
WillReload(t, s) ==
  /\ task[t].op \in {"done", "pending"} /\ task[t].click.s = s
  /\ task[t].click.op \in {"update", "approve", "remove"}

Recent(list, s) == list.rows[s].ver >= mine[s]

OwnInv ==
  /\ \A s \in Schedule : mine[s] <= schedules[s].ver
  /\ \A t \in Task : /\ task[t].op \in {"click", "done"} /\ task[t].click.op = "update" => task[t].click.editing
                     /\ task[t].op = "pending" => task[t].click.op \in {"approve", "reject"}
  /\ ~EditStrayed =>
       \A s \in Schedule :
         \/ \E t \in Task : WillReload(t, s)
         \/ /\ \A t \in Task : Current(t) /\ task[t].op = "loaded" => Recent(task[t].list, s)
            /\ \/ page.list = Nothing \/ Recent(page.list, s)
               \/ \E t \in Task : Current(t)

PageMadeOf(p) == p = [month |-> p.month, list |-> p.list, editing |-> p.editing]

CalendarShape == CalendarTypeOK /\ PageMadeOf(page)

LEMMA PageParts ==
  ASSUME NEW p, PageMadeOf(p), NEW v
  PROVE  /\ [p EXCEPT !.list = v] = [month |-> p.month, list |-> v, editing |-> p.editing]
         /\ [p EXCEPT !.editing = v] = [month |-> p.month, list |-> p.list, editing |-> v]
<1> DEFINE r(m, l, e) == [month |-> m, list |-> l, editing |-> e]
<1>1. \A m, l, e : [r(m, l, e) EXCEPT !.list = v] = r(m, v, e)
  OBVIOUS
<1>2. \A m, l, e : [r(m, l, e) EXCEPT !.editing = v] = r(m, l, v)
  OBVIOUS
<1>3. p = r(p.month, p.list, p.editing)
  BY DEF PageMadeOf
<1> HIDE DEF r
<1>4. [p EXCEPT !.list = v] = r(p.month, v, p.editing)
  BY <1>1, <1>3
<1>5. [p EXCEPT !.editing = v] = r(p.month, p.list, v)
  BY <1>2, <1>3
<1> QED
  BY <1>4, <1>5, Zenon DEF r

LEMMA PageRecord ==
  ASSUME NEW m, NEW l, NEW e
  PROVE  /\ PageMadeOf([month |-> m, list |-> l, editing |-> e])
         /\ [month |-> m, list |-> l, editing |-> e].month = m
         /\ [month |-> m, list |-> l, editing |-> e].list = l
         /\ [month |-> m, list |-> l, editing |-> e].editing = e
  BY DEF PageMadeOf

LEMMA TaskHas ==
  ASSUME NEW w \in Tasks
  PROVE  /\ NoTask.op = "none"
         /\ w.op \in {"load", "loaded"} =>
              /\ [w EXCEPT !.newest = FALSE] \in Tasks
              /\ [w EXCEPT !.newest = FALSE].op = w.op
              /\ [w EXCEPT !.newest = FALSE].newest = FALSE
              /\ w.newest \in BOOLEAN
         /\ w.op = "load" => w.of \in Month
         /\ w.op = "loaded" => w.list \in Listing
         /\ w.op \in {"click", "done", "failed", "pending"} => w.click \in Click
<1>1. CASE w \in [op : {"load"}, of : Month, newest : BOOLEAN]
  <2>1. [w EXCEPT !.newest = FALSE] \in [op : {"load"}, of : Month, newest : BOOLEAN]
    BY <1>1
  <2>2. [w EXCEPT !.newest = FALSE] \in Tasks
    BY <2>1, Zenon DEF Tasks
  <2> QED
    BY <1>1, <2>2 DEF NoTask
<1>2. CASE w \in [op : {"loaded"}, list : Listing, newest : BOOLEAN]
  <2>1. [w EXCEPT !.newest = FALSE] \in [op : {"loaded"}, list : Listing, newest : BOOLEAN]
    BY <1>2
  <2>2. [w EXCEPT !.newest = FALSE] \in Tasks
    BY <2>1, Zenon DEF Tasks
  <2> QED
    BY <1>2, <2>2 DEF NoTask
<1>3. CASE w \in [op : {"click", "done", "failed", "pending"}, click : Click]
  BY <1>3 DEF NoTask
<1>4. CASE w = NoTask
  BY <1>4 DEF NoTask
<1> QED
  BY <1>1, <1>2, <1>3, <1>4 DEF Tasks

\* A request more: every other answer is stale.
LEMMA LoadIs ==
  ASSUME CalendarTypeOK, NEW t \in Task, NEW m \in Month, task' = Load(t, m)
  PROVE  /\ task' \in [Task -> Tasks]
         /\ task'[t].op = "load" /\ task'[t].of = m /\ Current(t)'
         /\ \A u \in Task \ {t} : /\ ~Current(u)' /\ task'[u].op = task[u].op
                                  /\ task[u].op \notin {"load", "loaded"} => task'[u] = task[u]
<1> DEFINE new == [op |-> "load", of |-> m, newest |-> TRUE]
<1>1. new \in Tasks /\ new.op = "load" /\ new.of = m /\ new.newest
  BY DEF Tasks
<1>2. /\ task'[t] = new /\ task' = [u \in Task |-> task'[u]]
      /\ \A u \in Task \ {t} :
           /\ task[u].op \in {"load", "loaded"} => task'[u] = [task[u] EXCEPT !.newest = FALSE]
           /\ task[u].op \notin {"load", "loaded"} => task'[u] = task[u]
  BY Zenon DEF Load
<1> HIDE DEF new
<1>3. \A u \in Task \ {t} : task'[u] \in Tasks /\ ~Current(u)' /\ task'[u].op = task[u].op
  <2> SUFFICES ASSUME NEW u \in Task \ {t}
               PROVE  task'[u] \in Tasks /\ ~Current(u)' /\ task'[u].op = task[u].op
    OBVIOUS
  <2>1. task[u] \in Tasks
    BY DEF CalendarTypeOK
  <2>2. CASE task[u].op \in {"load", "loaded"}
    <3>1. /\ [task[u] EXCEPT !.newest = FALSE] \in Tasks
          /\ [task[u] EXCEPT !.newest = FALSE].op = task[u].op
          /\ [task[u] EXCEPT !.newest = FALSE].newest = FALSE
      BY <2>1, <2>2, TaskHas
    <3>2. task'[u] \in Tasks /\ task'[u].op = task[u].op /\ task'[u].newest = FALSE
      BY <1>2, <2>2, <3>1, Zenon
    <3> QED
      BY <3>2 DEF Current
  <2>3. CASE task[u].op \notin {"load", "loaded"}
    BY <1>2, <2>1, <2>3 DEF Current
  <2> QED
    BY <2>2, <2>3
<1>4. task' \in [Task -> Tasks]
  BY <1>1, <1>2, <1>3
<1> QED
  BY <1>1, <1>2, <1>3, <1>4 DEF Current

LEMMA TaskIs ==
  ASSUME CalendarTypeOK, NEW t \in Task, NEW w \in Tasks, task' = [task EXCEPT ![t] = w]
  PROVE  task' \in [Task -> Tasks] /\ task'[t] = w /\ \A u \in Task \ {t} : task'[u] = task[u]
  BY DEF CalendarTypeOK

LEMMA ClickIs ==
  ASSUME NEW c \in Click
  PROVE  /\ c.op \in Operation /\ c.s \in Schedule /\ c.month \in Month
         /\ \A o \in {"click", "done", "failed", "pending"} : [op |-> o, click |-> c] \in Tasks
  BY DEF Click, Tasks

\* What a request leaves of the rows.
LEMMA ServeIs ==
  ASSUME CalendarTypeOK, NEW op \in Operation, NEW s \in Schedule, NEW m \in Month, Serve(op, s, m)
  PROVE  /\ schedules' \in [Schedule -> Row] /\ schedules'[s].ver = schedules[s].ver + 1
         /\ \A r \in Schedule \ {s} : schedules'[r] = schedules[r]
<1> DEFINE new == Result(op, s, m)
<1>1. schedules[s] \in Row /\ schedules[s].ver \in Nat /\ schedules[s].ver < MaxVersion
  BY ClubCalendarAssumption DEF CalendarTypeOK, Serve, Row
<1>2. schedules[s].ver + 1 \in 0..MaxVersion
  BY <1>1, ClubCalendarAssumption
<1>3. new \in Row /\ new.ver = schedules[s].ver + 1
  <2> DEFINE st == CASE op = "propose" -> "PENDING"
                     [] op = "approve" -> "APPROVED"
                     [] op = "reject" -> "REJECTED"
                     [] op = "remove" -> "DELETED"
                     [] OTHER -> schedules[s].status
             mo == IF op \in {"propose", "update"} THEN m ELSE schedules[s].month
             ver == schedules[s].ver + 1
  <2>1. st \in {"NONE", "PENDING", "APPROVED", "REJECTED", "DELETED"}
    BY <1>1 DEF Row, Operation
  <2>2. mo \in Month /\ ver \in 0..MaxVersion
    BY <1>1, <1>2 DEF Row
  <2>3. new = [status |-> st, month |-> mo, ver |-> ver]
    BY Zenon DEF Result
  <2> HIDE DEF st, mo, ver, new
  <2>4. new \in Row /\ new.ver = ver
    BY <2>1, <2>2, <2>3 DEF Row
  <2> QED
    BY <2>4 DEF ver
<1>4. schedules' = [schedules EXCEPT ![s] = new]
  BY Zenon DEF Serve
<1> HIDE DEF new
<1> QED
  BY <1>3, <1>4 DEF CalendarTypeOK

LEMMA CalendarTypeInit == CalendarInit => CalendarShape
<1> SUFFICES ASSUME CalendarInit PROVE CalendarShape
  OBVIOUS
<1>1. PICK t \in Task, m \in Month :
        /\ page = [month |-> m, list |-> Nothing, editing |-> Nothing]
        /\ task = [u \in Task |-> IF u = t THEN [op |-> "load", of |-> m, newest |-> TRUE] ELSE NoTask]
  BY DEF CalendarInit
<1>2. schedules \in [Schedule -> Row]
  BY ClubCalendarAssumption DEF CalendarInit, Row
<1>3. task \in [Task -> Tasks]
  BY <1>1 DEF Tasks
<1>4. /\ PageMadeOf(page) /\ page.month \in Month /\ page.list = Nothing /\ page.editing = Nothing
  BY <1>1, PageRecord
<1>5. mine \in [Schedule -> 0..MaxVersion]
  BY ClubCalendarAssumption DEF CalendarInit
<1> QED
  BY <1>2, <1>3, <1>4, <1>5 DEF CalendarInit, CalendarShape, CalendarTypeOK

LEMMA ShapeIs ==
  ASSUME CalendarShape, kind' = kind, schedules' \in [Schedule -> Row], task' \in [Task -> Tasks],
         mine' \in [Schedule -> 0..MaxVersion], strayed' \in SUBSET {"month", "edit"},
         PageMadeOf(page'), page'.month \in Month, page'.list \in Listing \cup {Nothing},
         page'.editing \in Schedule \cup {Nothing}
  PROVE  CalendarShape'
  BY DEF CalendarShape, CalendarTypeOK, PageMadeOf

\* What a page made of its parts keeps.
LEMMA PageIs ==
  ASSUME NEW m \in Month, NEW l \in Listing \cup {Nothing}, NEW e \in Schedule \cup {Nothing},
         page' = [month |-> m, list |-> l, editing |-> e]
  PROVE  /\ PageMadeOf(page') /\ page'.month = m /\ page'.list = l /\ page'.editing = e
         /\ page'.month \in Month /\ page'.list \in Listing \cup {Nothing}
         /\ page'.editing \in Schedule \cup {Nothing}
  BY PageRecord

CalendarInv == CalendarShape /\ ListInv /\ OwnInv

\* Whatever came before, a page that has just asked again is on its way to the truth.
LEMMA LoadStep ==
  ASSUME CalendarShape, OwnInv, NEW t \in Task, NEW m \in Month, task' = Load(t, m),
         schedules' = schedules, mine' = mine, MonthStrayed' \/ m = page'.month
  PROVE  ListInv' /\ OwnInv'
<1>1. /\ task'[t].op = "load" /\ task'[t].of = m /\ Current(t)'
      /\ \A u \in Task \ {t} : /\ ~Current(u)' /\ task'[u].op = task[u].op
                               /\ task[u].op \notin {"load", "loaded"} => task'[u] = task[u]
  BY LoadIs DEF CalendarShape
<1>2. ListInv'
  BY <1>1 DEF ListInv
<1>3. \A u \in Task : /\ task'[u].op \in {"click", "done"} /\ task'[u].click.op = "update" => task'[u].click.editing
                      /\ task'[u].op = "pending" => task'[u].click.op \in {"approve", "reject"}
  <2> SUFFICES ASSUME NEW u \in Task \ {t}
               PROVE  /\ task'[u].op \in {"click", "done"} /\ task'[u].click.op = "update" => task'[u].click.editing
                      /\ task'[u].op = "pending" => task'[u].click.op \in {"approve", "reject"}
    BY <1>1
  <2> QED
    BY <1>1 DEF OwnInv
<1>4. /\ \A s \in Schedule : mine'[s] <= schedules'[s].ver
      /\ \A u \in Task : Current(u)' => task'[u].op # "loaded"
  BY <1>1 DEF OwnInv
<1> QED
  BY <1>1, <1>2, <1>3, <1>4 DEF OwnInv

\* A step that asks for no list, and shows none.
LEMMA ListOtherStep ==
  ASSUME ListInv, page'.month = page.month, page'.list = page.list \/ page'.list = Nothing,
         MonthStrayed => MonthStrayed',
         \A u \in Task : (Current(u)' <=> Current(u)) /\ (Current(u) => task'[u] = task[u])
  PROVE  ListInv'
  BY DEF ListInv

LEMMA OwnOtherStep ==
  ASSUME CalendarShape, OwnInv, page'.list = page.list \/ page'.list = Nothing,
         EditStrayed => EditStrayed',
         \A u \in Task : (Current(u)' <=> Current(u)) /\ (Current(u) => task'[u] = task[u]),
         \A s \in Schedule : /\ mine'[s] <= schedules'[s].ver
                             /\ mine'[s] = mine[s] \/ \E u \in Task : WillReload(u, s)',
         \A u \in Task :
           /\ task'[u].op \in {"click", "done"} /\ task'[u].click.op = "update" => task'[u].click.editing
           /\ task'[u].op = "pending" => task'[u].click.op \in {"approve", "reject"},
         EditStrayed' \/ \A u \in Task, s \in Schedule : WillReload(u, s) => WillReload(u, s)'
  PROVE  OwnInv'
<1> SUFFICES ASSUME ~EditStrayed', NEW s \in Schedule, \A u \in Task : ~WillReload(u, s)'
             PROVE  /\ \A u \in Task : Current(u)' /\ task'[u].op = "loaded" => Recent(task[u].list, s)' 
                    /\ \/ page'.list = Nothing \/ Recent(page.list, s)'
                       \/ \E u \in Task : Current(u)'
  BY DEF OwnInv
<1>1. mine'[s] = mine[s] /\ \A u \in Task : ~WillReload(u, s)
  OBVIOUS
<1>2. /\ \A u \in Task : Current(u) /\ task[u].op = "loaded" => Recent(task[u].list, s)
      /\ \/ page.list = Nothing \/ Recent(page.list, s)
         \/ \E u \in Task : Current(u)
  BY <1>1 DEF OwnInv
<1> QED
  BY <1>1, <1>2 DEF Recent

LEMMA TurnStep ==
  ASSUME CalendarInv, NEW t \in Task, Turn(t)
  PROVE  CalendarInv'
<1>1. PICK m \in Month : /\ page' = [month |-> m, list |-> WhileLoading, editing |-> page.editing]
                         /\ task' = Load(t, m)
  BY Zenon DEF Turn
<1>2. kind' = kind /\ schedules' = schedules /\ mine' = mine /\ strayed' = {}
  BY Zenon DEF Turn
<1>3. WhileLoading \in Listing \cup {Nothing} /\ page.editing \in Schedule \cup {Nothing}
  BY DEF CalendarInv, CalendarShape, CalendarTypeOK, WhileLoading
<1>4. /\ PageMadeOf(page') /\ page'.month = m /\ page'.month \in Month
      /\ page'.list \in Listing \cup {Nothing} /\ page'.editing \in Schedule \cup {Nothing}
  BY <1>1, <1>3, PageIs
<1>5. task' \in [Task -> Tasks]
  BY <1>1, LoadIs DEF CalendarInv, CalendarShape
<1>6. CalendarShape'
  BY <1>2, <1>4, <1>5, ShapeIs DEF CalendarInv, CalendarShape, CalendarTypeOK
<1>7. ListInv' /\ OwnInv'
  BY <1>1, <1>2, <1>4, LoadStep DEF CalendarInv
<1> QED
  BY <1>6, <1>7 DEF CalendarInv

\* The reload after an operation, whatever it was.
LEMMA ReloadStep ==
  ASSUME CalendarInv, NEW t \in Task, NEW c \in Click, NEW e \in Schedule \cup {Nothing},
         Reload(t, c, e), UNCHANGED <<kind, schedules, mine>>
  PROVE  CalendarInv'
<1> DEFINE m == ReloadMonth(c)
<1>1. /\ page' = [month |-> page.month, list |-> WhileLoading, editing |-> e]
      /\ task' = Load(t, m) /\ strayed' = IF m # page.month THEN {"month"} ELSE {}
  BY Zenon DEF Reload
<1>2. page.month \in Month /\ WhileLoading \in Listing \cup {Nothing} /\ m \in Month
  BY ClickIs DEF CalendarInv, CalendarShape, CalendarTypeOK, WhileLoading, ReloadMonth
<1>3. kind' = "oj" \/ m = page.month
  BY DEF ReloadMonth, CalendarInv, CalendarShape, CalendarTypeOK
<1> HIDE DEF m
<1>4. /\ PageMadeOf(page') /\ page'.month = page.month /\ page'.month \in Month
      /\ page'.list \in Listing \cup {Nothing} /\ page'.editing \in Schedule \cup {Nothing}
  BY <1>1, <1>2, PageIs
<1>5. task' \in [Task -> Tasks]
  BY <1>1, <1>2, LoadIs DEF CalendarInv, CalendarShape
<1>6. strayed' \in SUBSET {"month", "edit"} /\ (MonthStrayed' \/ m = page'.month)
  BY <1>1, <1>3, <1>4 DEF MonthStrayed
<1>7. CalendarShape'
  BY <1>4, <1>5, <1>6, ShapeIs DEF CalendarInv, CalendarShape, CalendarTypeOK
<1>8. ListInv' /\ OwnInv'
  BY <1>1, <1>2, <1>6, LoadStep DEF CalendarInv
<1> QED
  BY <1>7, <1>8 DEF CalendarInv

LEMMA ReadListStep ==
  ASSUME CalendarInv, NEW t \in Task, ReadList(t)
  PROVE  CalendarInv'
<1> DEFINE new == [op |-> "loaded", newest |-> task[t].newest,
                   list |-> [of |-> task[t].of, rows |-> schedules]]
<1>1. task[t].op = "load" /\ task' = [task EXCEPT ![t] = new]
  BY Zenon DEF ReadList
<1>2. UNCHANGED <<kind, schedules, page, mine, strayed>>
  BY Zenon DEF ReadList
<1>3. task[t].newest \in BOOLEAN /\ task[t].of \in Month /\ schedules \in [Schedule -> Row]
  BY <1>1, TaskHas DEF CalendarInv, CalendarShape, CalendarTypeOK
<1>4. /\ new \in Tasks /\ new.op = "loaded" /\ new.newest = task[t].newest
      /\ new.list.of = task[t].of /\ new.list.rows = schedules
  <2> DEFINE list == [of |-> task[t].of, rows |-> schedules]
  <2>1. list \in Listing /\ list.of = task[t].of /\ list.rows = schedules
    BY <1>3 DEF Listing
  <2>2. new = [op |-> "loaded", newest |-> task[t].newest, list |-> list]
    OBVIOUS
  <2> HIDE DEF list, new
  <2>3. new \in [op : {"loaded"}, list : Listing, newest : BOOLEAN]
    BY <1>3, <2>1, <2>2
  <2>4. new \in Tasks
    BY <2>3, Zenon DEF Tasks
  <2> QED
    BY <2>1, <2>2, <2>4
<1> HIDE DEF new
<1>5. task' \in [Task -> Tasks] /\ task'[t] = new /\ \A u \in Task \ {t} : task'[u] = task[u]
  BY <1>1, <1>4, TaskIs DEF CalendarInv, CalendarShape
<1>6. CalendarShape'
  BY <1>2, <1>5, ShapeIs DEF CalendarInv, CalendarShape, CalendarTypeOK
<1>7. \A u \in Task : /\ Current(u)' <=> Current(u)
                      /\ \A s \in Schedule : WillReload(u, s)' <=> WillReload(u, s)
  BY <1>1, <1>4, <1>5 DEF Current, WillReload
<1>8. ListInv'
  <2> SUFFICES ASSUME ~MonthStrayed
               PROVE  /\ \A u \in Task : Current(u)' => /\ task'[u].op = "load" => task'[u].of = page.month
                                                        /\ task'[u].op = "loaded" => task'[u].list.of = page.month
                      /\ \/ page.list = Nothing \/ page.list.of = page.month
                         \/ \E u \in Task : Current(u)'
    BY <1>2 DEF ListInv, MonthStrayed
  <2> QED
    BY <1>1, <1>4, <1>5, <1>7 DEF ListInv, CalendarInv
<1>9. OwnInv'
  <2>1. \A s \in Schedule : mine[s] <= schedules[s].ver /\ schedules[s].ver \in Nat /\ mine[s] \in Nat
    BY <1>3, ClubCalendarAssumption DEF CalendarInv, OwnInv, Row, CalendarShape, CalendarTypeOK
  <2>2. \A s \in Schedule : Recent(new.list, s)
    BY <1>4, <2>1 DEF Recent
  <2>3. \A u \in Task : /\ task'[u].op \in {"click", "done"} /\ task'[u].click.op = "update" => task'[u].click.editing
                        /\ task'[u].op = "pending" => task'[u].click.op \in {"approve", "reject"}
    BY <1>4, <1>5 DEF CalendarInv, OwnInv
  <2>4. ASSUME ~EditStrayed, NEW s \in Schedule, \A u \in Task : ~WillReload(u, s)
        PROVE  /\ \A u \in Task : Current(u)' /\ task'[u].op = "loaded" => Recent(task'[u].list, s)
               /\ \/ page.list = Nothing \/ Recent(page.list, s)
                  \/ \E u \in Task : Current(u)'
    <3>1. /\ \A u \in Task : Current(u) /\ task[u].op = "loaded" => Recent(task[u].list, s)
          /\ \/ page.list = Nothing \/ Recent(page.list, s)
             \/ \E u \in Task : Current(u)
      BY <2>4 DEF CalendarInv, OwnInv
    <3> QED
      BY <1>4, <1>5, <1>7, <2>2, <3>1
  <2>5. mine' = mine /\ schedules' = schedules /\ page' = page /\ (EditStrayed' <=> EditStrayed)
    BY <1>2 DEF EditStrayed
  <2> QED
    BY <1>7, <2>1, <2>3, <2>4, <2>5 DEF OwnInv, Recent
<1> QED
  BY <1>6, <1>8, <1>9 DEF CalendarInv

LEMMA ShowListStep ==
  ASSUME CalendarInv, NEW t \in Task, ShowList(t)
  PROVE  CalendarInv'
<1>1. /\ task[t].op \in {"load", "loaded"} /\ task' = [task EXCEPT ![t] = NoTask]
      /\ UNCHANGED <<kind, schedules, mine, strayed>>
  BY Zenon DEF ShowList
<1>2. NoTask \in Tasks /\ task[t] \in Tasks
  BY DEF CalendarInv, CalendarShape, CalendarTypeOK, Tasks
<1>3. task' \in [Task -> Tasks] /\ task'[t] = NoTask /\ \A u \in Task \ {t} : task'[u] = task[u]
  BY <1>1, <1>2, TaskIs DEF CalendarInv, CalendarShape
<1>4. NoTask.op = "none" /\ (task[t].op = "loaded" => task[t].list \in Listing)
  BY <1>2, TaskHas
<1>5. \/ ~task[t].newest /\ page' = page
      \/ task[t].newest /\ page' = [page EXCEPT !.list = Nothing]
      \/ task[t].newest /\ task[t].op = "loaded" /\ page' = [page EXCEPT !.list = task[t].list]
  BY Zenon DEF ShowList, Newest
<1>6. /\ page.month \in Month /\ page.list \in Listing \cup {Nothing}
      /\ page.editing \in Schedule \cup {Nothing} /\ PageMadeOf(page)
  BY DEF CalendarInv, CalendarShape, CalendarTypeOK
<1>7. /\ PageMadeOf(page') /\ page'.month = page.month /\ page'.editing = page.editing
      /\ page'.list \in Listing \cup {Nothing}
      /\ \/ ~task[t].newest /\ page'.list = page.list
         \/ task[t].newest /\ page'.list = Nothing
         \/ task[t].newest /\ task[t].op = "loaded" /\ page'.list = task[t].list
  <2>1. CASE ~task[t].newest /\ page' = page
    BY <1>6, <2>1
  <2>2. ASSUME NEW l \in Listing \cup {Nothing}, page' = [page EXCEPT !.list = l]
        PROVE  /\ PageMadeOf(page') /\ page'.month = page.month /\ page'.editing = page.editing
               /\ page'.list \in Listing \cup {Nothing} /\ page'.list = l
    <3>1. page' = [month |-> page.month, list |-> l, editing |-> page.editing]
      BY <1>6, <2>2, PageParts
    <3> QED
      BY <1>6, <3>1, PageIs
  <2> QED
    BY <1>4, <1>5, <2>1, <2>2
<1>8. CalendarShape'
  BY <1>1, <1>3, <1>6, <1>7, ShapeIs DEF CalendarInv, CalendarShape, CalendarTypeOK
<1>9. \A u \in Task \ {t} : /\ Current(u)' <=> Current(u)
                            /\ \A s \in Schedule : WillReload(u, s)' <=> WillReload(u, s)
  BY <1>3 DEF Current, WillReload
<1>10. ~Current(t)' /\ \A s \in Schedule : ~WillReload(t, s)' /\ ~WillReload(t, s)
  BY <1>1, <1>3, <1>4 DEF Current, WillReload
<1>11. \A u \in Task : /\ task'[u].op \in {"click", "done"} /\ task'[u].click.op = "update" => task'[u].click.editing
                       /\ task'[u].op = "pending" => task'[u].click.op \in {"approve", "reject"}
  BY <1>3, <1>4 DEF CalendarInv, OwnInv
<1>12. \A s \in Schedule : mine'[s] <= schedules'[s].ver
  BY <1>1 DEF CalendarInv, OwnInv
<1>13. MonthStrayed' = MonthStrayed /\ EditStrayed' = EditStrayed /\ mine' = mine
  BY <1>1 DEF MonthStrayed, EditStrayed
<1>14. CASE ~task[t].newest
  <2>1. \A u \in Task : (Current(u)' <=> Current(u)) /\ (Current(u) => task'[u] = task[u])
    BY <1>3, <1>9, <1>10, <1>14 DEF Current
  <2>2. ListInv'
    BY <1>7, <1>13, <1>14, <2>1, ListOtherStep DEF CalendarInv
  <2>3. OwnInv'
    BY <1>7, <1>9, <1>10, <1>11, <1>12, <1>13, <1>14, <2>1, OwnOtherStep DEF CalendarInv
  <2> QED
    BY <1>8, <2>2, <2>3 DEF CalendarInv
<1>15. CASE task[t].newest
  <2>1. Current(t)
    BY <1>1, <1>15 DEF Current
  <2>2. page'.list = Nothing \/ (task[t].op = "loaded" /\ page'.list = task[t].list)
    BY <1>7, <1>15
  <2>3. ListInv'
    <3> SUFFICES ASSUME ~MonthStrayed
                 PROVE  /\ \A u \in Task : Current(u)' => /\ task'[u].op = "load" => task'[u].of = page'.month
                                                          /\ task'[u].op = "loaded" => task'[u].list.of = page'.month
                        /\ \/ page'.list = Nothing \/ page'.list.of = page'.month
                           \/ \E u \in Task : Current(u)'
      BY <1>13 DEF ListInv
    <3> QED
      BY <1>3, <1>7, <1>9, <1>10, <2>1, <2>2 DEF ListInv, CalendarInv
  <2>4. ASSUME ~EditStrayed, NEW s \in Schedule, \A u \in Task : ~WillReload(u, s)
        PROVE  /\ \A u \in Task : Current(u)' /\ task'[u].op = "loaded" => Recent(task'[u].list, s)
               /\ page'.list = Nothing \/ Recent(page'.list, s)
    <3>1. \A u \in Task : Current(u) /\ task[u].op = "loaded" => Recent(task[u].list, s)
      BY <2>4 DEF CalendarInv, OwnInv
    <3> QED
      BY <1>3, <1>9, <1>10, <2>1, <2>2, <3>1
  <2>5. OwnInv'
    BY <1>9, <1>10, <1>11, <1>12, <1>13, <2>4 DEF OwnInv, Recent
  <2> QED
    BY <1>8, <2>3, <2>5 DEF CalendarInv
<1>16. task[t].newest \in BOOLEAN
  BY <1>1, <1>2, TaskHas
<1> QED
  BY <1>14, <1>15, <1>16

\* A step of one task that is no request for the list.
LEMMA OtherTask ==
  ASSUME CalendarInv, NEW t \in Task, NEW w \in Tasks, task' = [task EXCEPT ![t] = w],
         task[t].op \notin {"load", "loaded"}, w.op \notin {"load", "loaded"},
         w.op \in {"click", "done"} /\ w.click.op = "update" => w.click.editing,
         w.op = "pending" => w.click.op \in {"approve", "reject"}
  PROVE  /\ task' \in [Task -> Tasks] /\ task'[t] = w
         /\ \A u \in Task : (Current(u)' <=> Current(u)) /\ (Current(u) => task'[u] = task[u])
         /\ \A u \in Task \ {t}, s \in Schedule : WillReload(u, s)' <=> WillReload(u, s)
         /\ \A u \in Task :
              /\ task'[u].op \in {"click", "done"} /\ task'[u].click.op = "update" => task'[u].click.editing
              /\ task'[u].op = "pending" => task'[u].click.op \in {"approve", "reject"}
<1>1. task' \in [Task -> Tasks] /\ task'[t] = w /\ \A u \in Task \ {t} : task'[u] = task[u]
  BY TaskIs DEF CalendarInv, CalendarShape
<1>2. \A u \in Task : (Current(u)' <=> Current(u)) /\ (Current(u) => task'[u] = task[u])
  BY <1>1 DEF Current
<1>3. \A u \in Task \ {t}, s \in Schedule : WillReload(u, s)' <=> WillReload(u, s)
  BY <1>1 DEF WillReload
<1>4. \A u \in Task :
        /\ task'[u].op \in {"click", "done"} /\ task'[u].click.op = "update" => task'[u].click.editing
        /\ task'[u].op = "pending" => task'[u].click.op \in {"approve", "reject"}
  BY <1>1 DEF CalendarInv, OwnInv
<1> QED
  BY <1>1, <1>2, <1>3, <1>4

\* Where neither the page, nor the rows, nor what this page wrote of them changes.
LEMMA QuietTask ==
  ASSUME CalendarInv, NEW t \in Task, NEW w \in Tasks, task' = [task EXCEPT ![t] = w],
         UNCHANGED <<kind, schedules, page, mine, strayed>>,
         task[t].op \notin {"load", "loaded"}, w.op \notin {"load", "loaded"},
         w.op \in {"click", "done"} /\ w.click.op = "update" => w.click.editing,
         w.op = "pending" => w.click.op \in {"approve", "reject"},
         \A s \in Schedule : WillReload(t, s) => w.op \in {"done", "pending"} /\ w.click = task[t].click
  PROVE  CalendarInv'
<1>1. /\ task' \in [Task -> Tasks] /\ task'[t] = w
      /\ \A u \in Task : (Current(u)' <=> Current(u)) /\ (Current(u) => task'[u] = task[u])
      /\ \A u \in Task \ {t}, s \in Schedule : WillReload(u, s)' <=> WillReload(u, s)
      /\ \A u \in Task :
           /\ task'[u].op \in {"click", "done"} /\ task'[u].click.op = "update" => task'[u].click.editing
           /\ task'[u].op = "pending" => task'[u].click.op \in {"approve", "reject"}
  BY OtherTask
<1>2. \A u \in Task, s \in Schedule : WillReload(u, s) => WillReload(u, s)'
  <2>1. \A s \in Schedule : WillReload(t, s) => WillReload(t, s)'
    BY <1>1 DEF WillReload
  <2> QED
    BY <1>1, <2>1
<1>3. CalendarShape'
  BY <1>1, ShapeIs DEF CalendarInv, CalendarShape, CalendarTypeOK
<1>4. MonthStrayed' = MonthStrayed /\ EditStrayed' = EditStrayed
  BY DEF MonthStrayed, EditStrayed
<1>5. ListInv'
  BY <1>1, <1>4, ListOtherStep DEF CalendarInv
<1>6. \A s \in Schedule : mine'[s] <= schedules'[s].ver /\ mine'[s] = mine[s]
  BY DEF CalendarInv, OwnInv
<1>7. OwnInv'
  BY <1>1, <1>2, <1>4, <1>6, OwnOtherStep DEF CalendarInv
<1> QED
  BY <1>3, <1>5, <1>7 DEF CalendarInv

LEMMA PressButtonStep ==
  ASSUME CalendarInv, NEW t \in Task, PressButton(t)
  PROVE  CalendarInv'
<1>1. PICK op \in Operation, s \in Schedule :
        /\ op \in {"propose", "update"} => (IF op = "update" THEN page.editing = s ELSE page.editing = Nothing)
        /\ task' = [task EXCEPT ![t] = [op |-> "click", click |-> [op |-> op, s |-> s, month |-> page.month,
                                                                   editing |-> page.editing = s]]]
  BY Zenon DEF PressButton
<1> DEFINE c == [op |-> op, s |-> s, month |-> page.month, editing |-> page.editing = s]
           w == [op |-> "click", click |-> c]
<1>2. task[t] = NoTask /\ UNCHANGED <<kind, schedules, page, mine, strayed>>
  BY Zenon DEF PressButton
<1>3. c \in Click /\ c.op = op /\ c.editing = (page.editing = s)
  <2>1. PICK e \in BOOLEAN : e = (page.editing = s)
    OBVIOUS
  <2>2. page.month \in Month
    BY DEF CalendarInv, CalendarShape, CalendarTypeOK
  <2>3. c = [op |-> op, s |-> s, month |-> page.month, editing |-> e]
    BY <2>1
  <2> HIDE DEF c
  <2>4. c \in Click /\ c.op = op /\ c.editing = e
    BY <2>2, <2>3 DEF Click
  <2> QED
    BY <2>1, <2>4
<1> HIDE DEF c
<1>4. w \in Tasks /\ w.op = "click" /\ w.click = c
  BY <1>3, ClickIs
<1>5. task' = [task EXCEPT ![t] = w]
  BY <1>1, Zenon DEF c
<1>6. w.op \in {"click", "done"} /\ w.click.op = "update" => w.click.editing
  BY <1>1, <1>3, <1>4
<1>7. task[t].op = "none" /\ \A r \in Schedule : ~WillReload(t, r)
  BY <1>2 DEF NoTask, WillReload
<1> HIDE DEF w
<1> QED
  BY <1>2, <1>4, <1>5, <1>6, <1>7, QuietTask

LEMMA ReviewedStep ==
  ASSUME CalendarInv, NEW t \in Task, Reviewed(t)
  PROVE  CalendarInv'
<1>1. /\ task[t].op = "done" /\ task[t].click.op \in {"approve", "reject"}
      /\ task' = [task EXCEPT ![t] = [@ EXCEPT !.op = "pending"]]
      /\ UNCHANGED <<kind, schedules, page, mine, strayed>>
  BY Zenon DEF Reviewed
<1> DEFINE w == [op |-> "pending", click |-> task[t].click]
<1>2. task[t] \in Tasks /\ task[t].click \in Click
  BY <1>1, TaskHas DEF CalendarInv, CalendarShape, CalendarTypeOK
<1>3. task[t] = [op |-> "done", click |-> task[t].click]
  BY <1>1, <1>2 DEF Tasks, NoTask
<1>4. [task[t] EXCEPT !.op = "pending"] = w
  <2>1. \A c : [[op |-> "done", click |-> c] EXCEPT !.op = "pending"] = [op |-> "pending", click |-> c]
    OBVIOUS
  <2> QED
    BY <1>3, <2>1
<1>5. w \in Tasks /\ w.op = "pending" /\ w.click = task[t].click
  BY <1>2, ClickIs
<1> HIDE DEF w
<1>6. task' = [task EXCEPT ![t] = w]
  BY <1>1, <1>4
<1> QED
  BY <1>1, <1>5, <1>6, QuietTask

LEMMA RefusedStep ==
  ASSUME CalendarInv, NEW t \in Task, Refused(t)
  PROVE  CalendarInv'
<1>1. /\ task[t].op = "failed" /\ task' = [task EXCEPT ![t] = NoTask]
      /\ UNCHANGED <<kind, schedules, page, mine, strayed>>
  BY Zenon DEF Refused
<1>2. NoTask \in Tasks /\ NoTask.op = "none"
  BY DEF Tasks, NoTask
<1>3. \A s \in Schedule : ~WillReload(t, s)
  BY <1>1 DEF WillReload
<1> QED
  BY <1>1, <1>2, <1>3, QuietTask

\* A version carried by mine or by a row.
LEMMA VersionsAreNat ==
  ASSUME CalendarShape, NEW s \in Schedule
  PROVE  mine[s] \in Nat /\ schedules[s].ver \in Nat
  BY ClubCalendarAssumption DEF CalendarShape, CalendarTypeOK, Row

LEMMA ReachStep ==
  ASSUME CalendarInv, NEW t \in Task, Reach(t)
  PROVE  CalendarInv'
<1> DEFINE c == task[t].click
<1>1. task[t].op = "click" /\ UNCHANGED <<kind, page, strayed>>
  BY Zenon DEF Reach
<1>2. \/ \E m \in Month :
           /\ Serve(c.op, c.s, m)
           /\ mine' = IF c.op \in {"update", "approve", "remove"}
                      THEN [mine EXCEPT ![c.s] = schedules[c.s].ver + 1] ELSE mine
           /\ task' = [task EXCEPT ![t] = [op |-> "done", click |-> c]]
      \/ /\ task' = [task EXCEPT ![t] = [op |-> "failed", click |-> c]]
         /\ UNCHANGED <<schedules, mine>>
  BY Zenon DEF Reach
<1>3. c \in Click /\ (c.op = "update" => c.editing)
  BY <1>1, TaskHas DEF CalendarInv, CalendarShape, CalendarTypeOK, OwnInv
<1>4. \A s \in Schedule : ~WillReload(t, s)
  BY <1>1 DEF WillReload
<1> HIDE DEF c
<1>5. CASE /\ task' = [task EXCEPT ![t] = [op |-> "failed", click |-> c]]
           /\ UNCHANGED <<schedules, mine>>
  <2>1. PICK w : w = [op |-> "failed", click |-> c]
    OBVIOUS
  <2>2. w \in Tasks /\ w.op = "failed"
    BY <1>3, <2>1, ClickIs
  <2>3. task' = [task EXCEPT ![t] = w]
    BY <1>5, <2>1
  <2> QED
    BY <1>1, <1>4, <1>5, <2>2, <2>3, QuietTask
<1>6. ASSUME NEW m \in Month, Serve(c.op, c.s, m),
             mine' = IF c.op \in {"update", "approve", "remove"}
                     THEN [mine EXCEPT ![c.s] = schedules[c.s].ver + 1] ELSE mine,
             task' = [task EXCEPT ![t] = [op |-> "done", click |-> c]]
      PROVE  CalendarInv'
  <2>1. PICK w : w = [op |-> "done", click |-> c]
    OBVIOUS
  <2>2. w \in Tasks /\ w.op = "done" /\ w.click = c
    BY <1>3, <2>1, ClickIs
  <2>3. task' = [task EXCEPT ![t] = w]
    BY <1>6, <2>1
  <2>4. /\ task' \in [Task -> Tasks] /\ task'[t] = w
        /\ \A u \in Task : (Current(u)' <=> Current(u)) /\ (Current(u) => task'[u] = task[u])
        /\ \A u \in Task \ {t}, s \in Schedule : WillReload(u, s)' <=> WillReload(u, s)
        /\ \A u \in Task :
             /\ task'[u].op \in {"click", "done"} /\ task'[u].click.op = "update" => task'[u].click.editing
             /\ task'[u].op = "pending" => task'[u].click.op \in {"approve", "reject"}
    BY <1>1, <1>3, <2>2, <2>3, OtherTask
  <2>5. c.op \in Operation /\ c.s \in Schedule
    BY <1>3, ClickIs
  <2>6. /\ schedules' \in [Schedule -> Row] /\ schedules'[c.s].ver = schedules[c.s].ver + 1
        /\ \A r \in Schedule \ {c.s} : schedules'[r] = schedules[r]
    BY <1>6, <2>5, ServeIs DEF CalendarInv, CalendarShape
  <2>7. schedules'[c.s].ver \in 0..MaxVersion
    BY <2>5, <2>6 DEF Row
  <2>8. /\ mine' \in [Schedule -> 0..MaxVersion]
        /\ \A s \in Schedule \ {c.s} : mine'[s] = mine[s]
        /\ \/ mine'[c.s] = mine[c.s]
           \/ c.op \in {"update", "approve", "remove"} /\ mine'[c.s] = schedules'[c.s].ver
    BY <1>6, <2>5, <2>6, <2>7 DEF CalendarInv, CalendarShape, CalendarTypeOK
  <2>9. CalendarShape'
    BY <1>1, <2>4, <2>6, <2>8, ShapeIs DEF CalendarInv, CalendarShape, CalendarTypeOK
  <2>10. MonthStrayed' = MonthStrayed /\ EditStrayed' = EditStrayed /\ page' = page
    BY <1>1 DEF MonthStrayed, EditStrayed
  <2>11. ListInv'
    BY <2>4, <2>10, ListOtherStep DEF CalendarInv
  <2>12. \A s \in Schedule : /\ mine'[s] <= schedules'[s].ver
                             /\ mine'[s] = mine[s] \/ \E u \in Task : WillReload(u, s)'
    <3>1. \A s \in Schedule : mine[s] <= schedules[s].ver
      BY DEF CalendarInv, OwnInv
    <3>2. /\ mine[c.s] \in Nat /\ schedules[c.s].ver \in Nat
      BY <2>5, VersionsAreNat DEF CalendarInv
    <3>3. mine'[c.s] <= schedules'[c.s].ver
      BY <2>5, <2>6, <2>8, <3>1, <3>2
    <3>4. PICK r \in Schedule : r = c.s
      BY <2>5
    <3>5. task'[t].op = "done" /\ task'[t].click.s = r /\ task'[t].click.op = c.op
      BY <2>2, <2>4, <3>4
    <3>6. c.op \in {"update", "approve", "remove"} => WillReload(t, r)'
      BY <3>5 DEF WillReload
    <3>7. mine'[r] <= schedules'[r].ver /\ (mine'[r] = mine[r] \/ WillReload(t, r)')
      BY <2>8, <3>3, <3>4, <3>6
    <3>8. \A s \in Schedule \ {r} : mine'[s] <= schedules'[s].ver /\ mine'[s] = mine[s]
      BY <2>6, <2>8, <3>1, <3>4
    <3> QED
      BY <3>7, <3>8, Zenon
  <2>13. \A u \in Task, s \in Schedule : WillReload(u, s) => WillReload(u, s)'
    BY <1>4, <2>4
  <2>14. OwnInv'
    BY <2>4, <2>10, <2>12, <2>13, OwnOtherStep DEF CalendarInv
  <2> QED
    BY <2>9, <2>11, <2>14 DEF CalendarInv
<1> QED
  BY <1>2, <1>5, <1>6

LEMMA ElsewhereStep ==
  ASSUME CalendarInv, Elsewhere
  PROVE  CalendarInv'
<1>1. PICK op \in Operation, s \in Schedule, m \in Month : Serve(op, s, m)
  BY Zenon DEF Elsewhere
<1>2. UNCHANGED <<kind, page, task, mine, strayed>>
  BY Zenon DEF Elsewhere
<1>3. /\ schedules' \in [Schedule -> Row] /\ schedules'[s].ver = schedules[s].ver + 1
      /\ \A r \in Schedule \ {s} : schedules'[r] = schedules[r]
  BY <1>1, ServeIs DEF CalendarInv, CalendarShape
<1>4. CalendarShape'
  BY <1>2, <1>3, ShapeIs DEF CalendarInv, CalendarShape, CalendarTypeOK
<1>5. \A u \in Task : /\ Current(u)' <=> Current(u)
                      /\ \A r \in Schedule : WillReload(u, r) => WillReload(u, r)'
  BY <1>2 DEF Current, WillReload
<1>6. MonthStrayed' = MonthStrayed /\ EditStrayed' = EditStrayed
  BY <1>2 DEF MonthStrayed, EditStrayed
<1>7. ListInv'
  BY <1>2, <1>5, <1>6, ListOtherStep DEF CalendarInv
<1>8. \A r \in Schedule : mine'[r] <= schedules'[r].ver /\ mine'[r] = mine[r]
  <2>1. mine[s] \in Nat /\ schedules[s].ver \in Nat /\ \A r \in Schedule : mine[r] <= schedules[r].ver
    BY VersionsAreNat DEF CalendarInv, OwnInv
  <2>2. mine[s] <= schedules'[s].ver
    BY <1>3, <2>1
  <2> QED
    BY <1>2, <1>3, <2>1, <2>2
<1>9. \A u \in Task :
        /\ task'[u].op \in {"click", "done"} /\ task'[u].click.op = "update" => task'[u].click.editing
        /\ task'[u].op = "pending" => task'[u].click.op \in {"approve", "reject"}
  BY <1>2 DEF CalendarInv, OwnInv
<1>10. OwnInv'
  BY <1>2, <1>5, <1>6, <1>8, <1>9, OwnOtherStep DEF CalendarInv
<1> QED
  BY <1>4, <1>7, <1>10 DEF CalendarInv

\* Opening and closing the form.
LEMMA EditStep ==
  ASSUME CalendarInv, BeginEdit \/ CancelEdit
  PROVE  CalendarInv'
<1>1. PICK e \in Schedule \cup {Nothing} : page' = [page EXCEPT !.editing = e]
  BY Zenon DEF BeginEdit, CancelEdit
<1>2. UNCHANGED <<kind, schedules, task, mine, strayed>>
  BY Zenon DEF BeginEdit, CancelEdit
<1>3. /\ page.month \in Month /\ page.list \in Listing \cup {Nothing} /\ PageMadeOf(page)
  BY DEF CalendarInv, CalendarShape, CalendarTypeOK
<1>4. page' = [month |-> page.month, list |-> page.list, editing |-> e]
  BY <1>1, <1>3, PageParts
<1>5. /\ PageMadeOf(page') /\ page'.month = page.month /\ page'.list = page.list
      /\ page'.editing \in Schedule \cup {Nothing}
  BY <1>3, <1>4, PageIs
<1>6. CalendarShape'
  BY <1>2, <1>3, <1>5, ShapeIs DEF CalendarInv, CalendarShape, CalendarTypeOK
<1>7. \A u \in Task : /\ Current(u)' <=> Current(u)
                      /\ \A r \in Schedule : WillReload(u, r) => WillReload(u, r)'
  BY <1>2 DEF Current, WillReload
<1>8. MonthStrayed' = MonthStrayed /\ EditStrayed' = EditStrayed
  BY <1>2 DEF MonthStrayed, EditStrayed
<1>9. ListInv'
  BY <1>2, <1>5, <1>7, <1>8, ListOtherStep DEF CalendarInv
<1>10. \A r \in Schedule : mine'[r] <= schedules'[r].ver /\ mine'[r] = mine[r]
  BY <1>2 DEF CalendarInv, OwnInv
<1>11. \A u \in Task :
         /\ task'[u].op \in {"click", "done"} /\ task'[u].click.op = "update" => task'[u].click.editing
         /\ task'[u].op = "pending" => task'[u].click.op \in {"approve", "reject"}
  BY <1>2 DEF CalendarInv, OwnInv
<1>12. OwnInv'
  BY <1>2, <1>5, <1>7, <1>8, <1>10, <1>11, OwnOtherStep DEF CalendarInv
<1> QED
  BY <1>6, <1>9, <1>12 DEF CalendarInv

LEMMA RemovedStep ==
  ASSUME CalendarInv, NEW t \in Task, Removed(t)
  PROVE  CalendarInv'
<1> DEFINE c == task[t].click
           empties == IF kind = "home" THEN page.editing = c.s ELSE c.editing
           e == IF empties THEN Nothing ELSE page.editing
<1>1. task[t].op = "done" /\ Reload(t, c, e) /\ UNCHANGED <<kind, schedules, mine>>
  BY Zenon DEF Removed
<1>2. c \in Click
  BY <1>1, TaskHas DEF CalendarInv, CalendarShape, CalendarTypeOK
<1>3. e \in Schedule \cup {Nothing}
  BY DEF CalendarInv, CalendarShape, CalendarTypeOK
<1> HIDE DEF c, e
<1> QED
  BY <1>1, <1>2, <1>3, ReloadStep

LEMMA PendingShownStep ==
  ASSUME CalendarInv, NEW t \in Task, PendingShown(t)
  PROVE  CalendarInv'
<1> DEFINE c == task[t].click
<1>1. /\ task[t].op = "pending" /\ UNCHANGED <<kind, schedules, mine>>
      /\ \/ c.op = "approve" /\ Reload(t, c, page.editing)
         \/ c.op # "approve" /\ task' = [task EXCEPT ![t] = NoTask] /\ UNCHANGED <<page, strayed>>
  BY Zenon DEF PendingShown
<1>2. c \in Click /\ page.editing \in Schedule \cup {Nothing} /\ c.op \in {"approve", "reject"}
  BY <1>1, TaskHas DEF CalendarInv, CalendarShape, CalendarTypeOK, OwnInv
<1>3. CASE c.op = "approve" /\ Reload(t, c, page.editing)
  <2> HIDE DEF c
  <2> QED
    BY <1>1, <1>2, <1>3, ReloadStep
<1>4. CASE c.op # "approve" /\ task' = [task EXCEPT ![t] = NoTask] /\ UNCHANGED <<page, strayed>>
  <2>1. NoTask \in Tasks /\ NoTask.op = "none"
    BY DEF Tasks, NoTask
  <2>2. \A s \in Schedule : ~WillReload(t, s)
    BY <1>2, <1>4 DEF WillReload
  <2> QED
    BY <1>1, <1>4, <2>1, <2>2, QuietTask
<1> QED
  BY <1>1, <1>3, <1>4

LEMMA SavedStep ==
  ASSUME CalendarInv, NEW t \in Task, Saved(t)
  PROVE  CalendarInv'
<1> DEFINE c == task[t].click
<1>1. /\ task[t].op = "done" /\ c.op \in {"propose", "update"} /\ UNCHANGED <<kind, schedules, mine>>
      /\ \/ WasEditing(c) /\ Reload(t, c, Nothing)
         \/ /\ ~WasEditing(c)
            /\ page' = [page EXCEPT !.editing = Nothing]
            /\ task' = [task EXCEPT ![t] = NoTask]
            /\ strayed' = IF c.op = "update" THEN strayed \cup {"edit"} ELSE strayed
  BY Zenon DEF Saved
<1>2. c \in Click /\ (c.op = "update" => c.editing)
  BY <1>1, TaskHas DEF CalendarInv, CalendarShape, CalendarTypeOK, OwnInv
<1>3. CASE WasEditing(c) /\ Reload(t, c, Nothing)
  <2> HIDE DEF c
  <2> QED
    BY <1>1, <1>2, <1>3, ReloadStep
<1>4. CASE /\ ~WasEditing(c)
           /\ page' = [page EXCEPT !.editing = Nothing]
           /\ task' = [task EXCEPT ![t] = NoTask]
           /\ strayed' = IF c.op = "update" THEN strayed \cup {"edit"} ELSE strayed
  <2>1. NoTask \in Tasks /\ NoTask.op = "none"
    BY DEF Tasks, NoTask
  <2>2. /\ task' \in [Task -> Tasks] /\ task'[t] = NoTask
        /\ \A u \in Task : (Current(u)' <=> Current(u)) /\ (Current(u) => task'[u] = task[u])
        /\ \A u \in Task \ {t}, s \in Schedule : WillReload(u, s)' <=> WillReload(u, s)
        /\ \A u \in Task :
             /\ task'[u].op \in {"click", "done"} /\ task'[u].click.op = "update" => task'[u].click.editing
             /\ task'[u].op = "pending" => task'[u].click.op \in {"approve", "reject"}
    BY <1>1, <1>4, <2>1, OtherTask
  <2>3. page.month \in Month /\ page.list \in Listing \cup {Nothing} /\ PageMadeOf(page)
    BY DEF CalendarInv, CalendarShape, CalendarTypeOK
  <2>4. page' = [month |-> page.month, list |-> page.list, editing |-> Nothing]
    BY <1>4, <2>3, PageParts
  <2>5. /\ PageMadeOf(page') /\ page'.month = page.month /\ page'.list = page.list
        /\ page'.editing \in Schedule \cup {Nothing}
    BY <2>3, <2>4, PageIs
  <2>6. strayed' \in SUBSET {"month", "edit"}
    BY <1>4 DEF CalendarInv, CalendarShape, CalendarTypeOK
  <2>7. CalendarShape'
    BY <1>1, <2>2, <2>3, <2>5, <2>6, ShapeIs DEF CalendarInv, CalendarShape, CalendarTypeOK
  <2>8. /\ MonthStrayed => MonthStrayed'
        /\ EditStrayed => EditStrayed'
    BY <1>1, <1>4 DEF MonthStrayed, EditStrayed
  <2>9. ListInv'
    BY <2>2, <2>5, <2>8, ListOtherStep DEF CalendarInv
  <2>10. \A s \in Schedule : mine'[s] <= schedules'[s].ver /\ mine'[s] = mine[s]
    BY <1>1 DEF CalendarInv, OwnInv
  <2>11. EditStrayed' \/ \A u \in Task, s \in Schedule : WillReload(u, s) => WillReload(u, s)'
    <3>1. CASE c.op = "update"
      <4>1. kind = "home"
        BY <1>2, <1>4, <3>1 DEF WasEditing, CalendarInv, CalendarShape, CalendarTypeOK
      <4> QED
        BY <1>1, <1>4, <3>1, <4>1 DEF EditStrayed
    <3>2. CASE c.op = "propose"
      <4>1. \A s \in Schedule : ~WillReload(t, s)
        BY <3>2 DEF WillReload
      <4> QED
        BY <2>2, <4>1
    <3> QED
      BY <1>1, <3>1, <3>2
  <2>12. OwnInv'
    BY <2>2, <2>5, <2>8, <2>10, <2>11, OwnOtherStep DEF CalendarInv
  <2> QED
    BY <2>7, <2>9, <2>12 DEF CalendarInv
<1> QED
  BY <1>1, <1>3, <1>4

LEMMA CalendarInitial == CalendarInit => CalendarInv
<1> SUFFICES ASSUME CalendarInit PROVE CalendarInv
  OBVIOUS
<1>1. PICK t \in Task, m \in Month :
        /\ page = [month |-> m, list |-> Nothing, editing |-> Nothing]
        /\ task = [u \in Task |-> IF u = t THEN [op |-> "load", of |-> m, newest |-> TRUE] ELSE NoTask]
  BY DEF CalendarInit
<1>2. page.month = m /\ page.list = Nothing
  BY <1>1, PageRecord
<1>3. /\ task[t].op = "load" /\ task[t].of = m
      /\ \A u \in Task \ {t} : task[u].op = "none"
  BY <1>1 DEF NoTask
<1>4. ListInv
  BY <1>2, <1>3 DEF ListInv, Current
<1>5. \A s \in Schedule : mine[s] = 0 /\ schedules[s].ver = 0
  BY DEF CalendarInit
<1>6. OwnInv
  BY <1>2, <1>3, <1>5 DEF OwnInv, Current
<1> QED
  BY <1>4, <1>6, CalendarTypeInit DEF CalendarInv

LEMMA CalendarHolds == CalendarSpec => []CalendarInv
<1>1. ASSUME CalendarInv, [CalendarNext]_calendarVars PROVE CalendarInv'
  <2>1. CASE UNCHANGED calendarVars
    BY <1>1, <2>1 DEF calendarVars, CalendarInv, CalendarShape, CalendarTypeOK, PageMadeOf, ListInv, OwnInv,
      Current, MonthStrayed, EditStrayed, WillReload, Recent
  <2>2. CASE CalendarNext
    <3>1. CASE Elsewhere \/ BeginEdit \/ CancelEdit
      BY <1>1, <3>1, ElsewhereStep, EditStep
    <3>2. CASE \E t \in Task : \/ Turn(t) \/ ReadList(t) \/ ShowList(t) \/ PressButton(t) \/ Reach(t)
                               \/ Saved(t) \/ Removed(t) \/ Reviewed(t) \/ PendingShown(t) \/ Refused(t)
      BY <1>1, <3>2, TurnStep, ReadListStep, ShowListStep, PressButtonStep, ReachStep, SavedStep, RemovedStep,
        ReviewedStep, PendingShownStep, RefusedStep
    <3> QED
      BY <2>2, <3>1, <3>2 DEF CalendarNext
  <2> QED
    BY <1>1, <2>1, <2>2
<1> QED
  BY <1>1, CalendarInitial, PTL DEF CalendarSpec

LEMMA AtRest ==
  ASSUME Idle, NEW t \in Task
  PROVE  ~Current(t) /\ \A s \in Schedule : ~WillReload(t, s)
  BY DEF Idle, NoTask, Current, WillReload

\* A page at rest, on the home page or on the OJ's, shows the month it names: loadSchedules()
\* of calendar.js and of ClubCalendarPage let only the newest request set the list.  The OJ's
\* page after an operation pressed under another month is excepted, and nothing else.
THEOREM CalendarShowsItsMonth == CalendarSpec => []ListIsOfItsMonth
<1>1. CalendarInv => ListIsOfItsMonth
  BY AtRest DEF CalendarInv, ListInv, ListIsOfItsMonth, MonthStrayed
<1> QED
  BY <1>1, CalendarHolds, PTL

\* A page at rest never shows a schedule as it was before the page's own last write to it:
\* every operation is followed by a reload that was asked for after it.  The home page after
\* an edit whose form was closed while it was being saved is excepted, and nothing else.
THEOREM CalendarShowsOwnWrites == CalendarSpec => []OwnWritesShow
<1>1. CalendarInv => OwnWritesShow
  BY AtRest DEF CalendarInv, OwnInv, OwnWritesShow, EditStrayed, Recent
<1> QED
  BY <1>1, CalendarHolds, PTL

-----------------------------------------------------------------------------
(***************************************************************************)
(* ExamScopes.                                                             *)
(***************************************************************************)

Stored == [exam : Exam \cup {"NONE"}, val : Value]
Marked == {"load", "loaded"} \cup Edits \cup Moves

\* The kinds of requests, told apart by their op.
LEMMA CallKinds ==
  ASSUME NEW r \in Calls
  PROVE  /\ r.op \in {"none", "load", "loaded", "edit", "edited", "move", "half", "moved", "add", "place",
                      "added", "failed"}
         /\ r = NoCall <=> r.op = "none"
         /\ r.op = "load" => r \in LoadCall
         /\ r.op = "loaded" => r \in LoadedCall
         /\ r.op \in Edits => r \in EditCall
         /\ r.op \in Moves => r \in MoveCall
         /\ r.op \in {"add", "place", "added"} => r \in AddCall
         /\ r.op = "failed" => r \in FailedCall
<1>1. r \in {NoCall} \cup LoadCall \cup LoadedCall \cup EditCall \cup MoveCall \cup AddCall \cup FailedCall
  BY DEF Calls
<1>2. CASE r = NoCall
  BY <1>2 DEF NoCall, Edits, Moves
<1>3. CASE r \in LoadCall
  BY <1>3 DEF LoadCall, NoCall, Edits, Moves
<1>4. CASE r \in LoadedCall
  BY <1>4 DEF LoadedCall, NoCall, Edits, Moves
<1>5. CASE r \in EditCall
  BY <1>5 DEF EditCall, NoCall, Edits, Moves
<1>6. CASE r \in MoveCall
  BY <1>6 DEF MoveCall, NoCall, Edits, Moves
<1>7. CASE r \in AddCall
  BY <1>7 DEF AddCall, NoCall, Edits, Moves
<1>8. CASE r \in FailedCall
  BY <1>8 DEF FailedCall, NoCall, Edits, Moves
<1> QED
  BY <1>1, <1>2, <1>3, <1>4, <1>5, <1>6, <1>7, <1>8

\* A request that is no longer fresh is otherwise what it was.
StaleOf(q, r) ==
  /\ q \in Calls /\ q.op = r.op /\ ~q.fresh
  /\ r.op \in {"load", "loaded"} => q.exam = r.exam
  /\ r.op = "loaded" => q.rows = r.rows
  /\ r.op \in Edits \cup Moves => q.item = r.item
  /\ r.op \in Moves => q.other = r.other /\ q.tied = r.tied
  /\ r.op \in Edits => q.field = r.field

LEMMA StaleHas ==
  ASSUME NEW r \in Calls, r.op \in Marked, NEW q, q = [r EXCEPT !.fresh = FALSE]
  PROVE  StaleOf(q, r)
<1>1. CASE r.op = "load"
  BY <1>1, CallKinds DEF LoadCall, Calls, StaleOf, Edits, Moves
<1>2. CASE r.op = "loaded"
  BY <1>2, CallKinds DEF LoadedCall, Calls, StaleOf, Edits, Moves
<1>3. CASE r.op \in Edits
  <2>1. r \in EditCall
    BY <1>3, CallKinds
  <2>2. /\ q \in EditCall /\ q.op = r.op /\ ~q.fresh /\ q.item = r.item /\ q.field = r.field
    BY <2>1 DEF EditCall
  <2> QED
    BY <1>3, <2>2 DEF Calls, StaleOf, Edits, Moves
<1>4. CASE r.op \in Moves
  <2>1. r \in MoveCall
    BY <1>4, CallKinds
  <2>2. /\ q \in MoveCall /\ q.op = r.op /\ ~q.fresh /\ q.item = r.item /\ q.other = r.other /\ q.tied = r.tied
    BY <2>1 DEF MoveCall
  <2> QED
    BY <1>4, <2>2 DEF Calls, StaleOf, Edits, Moves
<1> QED
  BY <1>1, <1>2, <1>3, <1>4 DEF Marked

LEMMA OvertakingHas ==
  ASSUME call \in [Call -> Calls], NEW c \in Call, NEW next \in Calls, NEW ops \in SUBSET Marked,
         call' = Overtaking(c, next, ops)
  PROVE  /\ call' \in [Call -> Calls] /\ call'[c] = next
         /\ \A d \in Call : d # c => IF call[d].op \in ops THEN StaleOf(call'[d], call[d])
                                     ELSE call'[d] = call[d]
<1>1. call' = [d \in Call |-> IF d = c THEN next ELSE IF call[d].op \in ops THEN [call[d] EXCEPT !.fresh = FALSE]
                              ELSE call[d]]
  BY DEF Overtaking
<1>2. ASSUME NEW d \in Call, d # c, call[d].op \in ops PROVE StaleOf(call'[d], call[d])
  <2>1. PICK r, q : r = call[d] /\ q = call'[d]
    OBVIOUS
  <2>2. q = [r EXCEPT !.fresh = FALSE] /\ r \in Calls
    BY <1>1, <1>2, <2>1
  <2>3. StaleOf(q, r)
    BY <1>2, <2>1, <2>2, StaleHas
  <2> QED
    BY <2>1, <2>3
<1>3. \A d \in Call : call'[d] \in Calls
  BY <1>1, <1>2 DEF StaleOf
<1> QED
  BY <1>1, <1>2, <1>3

LEMMA CollectedHas ==
  ASSUME NEW heap \in [1..MaxCopy -> [Subject -> Value]], NEW list, NEW calls, NEW p, p = Collected(heap, list, calls)
  PROVE  /\ p \in [1..MaxCopy -> [Subject -> Value]]
         /\ \A o \in Object : o.copy \in {list[i].copy : i \in DOMAIN list} => p[o.copy] = heap[o.copy]
<1>1. Blank \in Value
  BY ExamScopesAssumption DEF Blank, Value
<1>2. \A k \in 1..MaxCopy : p[k] = IF k \in Held(list, calls) THEN heap[k] ELSE [s \in Subject |-> Blank]
  BY DEF Collected
<1>3. p \in [1..MaxCopy -> [Subject -> Value]]
  BY <1>1 DEF Collected
<1>4. \A o \in Object : o.copy \in 1..MaxCopy
  BY DEF Object
<1> QED
  BY <1>2, <1>3, <1>4 DEF Held

-----------------------------------------------------------------------------
LEMMA ExamTypes ==
  ASSUME ExamTypeOK
  PROVE  /\ site \in {"home", "oj"} /\ scopes \in [Subject -> Stored]
         /\ objects \in [1..MaxCopy -> [Subject -> Value]]
         /\ view.exam \in Exam /\ view.list \in Seq(Object) /\ view.known \in BOOLEAN
         /\ view.shown \in {"loading", "list", "error"}
         /\ call \in [Call -> Calls] /\ slipped \in BOOLEAN
         /\ \A o \in Object : o.copy \in 1..MaxCopy /\ o.of \in Subject /\ Get(o) \in Value
         /\ \A i \in DOMAIN view.list : view.list[i] \in Object
<1>1. /\ site \in {"home", "oj"} /\ scopes \in [Subject -> Stored]
      /\ objects \in [1..MaxCopy -> [Subject -> Value]]
      /\ call \in [Call -> Calls] /\ slipped \in BOOLEAN
  BY DEF ExamTypeOK, Stored
<1>2. /\ view.exam \in Exam /\ view.list \in Seq(Object) /\ view.known \in BOOLEAN
      /\ view.shown \in {"loading", "list", "error"}
  BY DEF ExamTypeOK
<1>3. ASSUME NEW o \in Object PROVE o.copy \in 1..MaxCopy /\ o.of \in Subject /\ Get(o) \in Value
  BY <1>1 DEF Get, Object
<1>4. \A i \in DOMAIN view.list : view.list[i] \in Object
  BY <1>2
<1> QED
  BY <1>1, <1>2, <1>3, <1>4

\* A step is typed if what it makes of each variable is.
LEMMA TypedParts ==
  ASSUME ExamTypeOK, UNCHANGED site, scopes' \in [Subject -> Stored],
         objects' \in [1..MaxCopy -> [Subject -> Value]],
         view' \in [exam : Exam, list : Seq(Object), known : BOOLEAN, shown : {"loading", "list", "error"}],
         call' \in [Call -> Calls], presses' \in 0..MaxPresses, slipped' \in BOOLEAN
  PROVE  ExamTypeOK'
  BY DEF ExamTypeOK, Stored

LEMMA StepTyped ==
  ASSUME ExamTypeOK, NEW c \in Call, NEW next \in Calls, Step(c, next) PROVE ExamTypeOK'
  BY DEF ExamTypeOK, Step

LEMMA PressTyped ==
  ASSUME ExamTypeOK, NEW c \in Call, NEW next \in Calls, PressFor(c, next) PROVE ExamTypeOK'
<1>1. presses' \in 0..MaxPresses
  BY ExamScopesAssumption DEF ExamTypeOK, PressFor
<1> QED
  BY <1>1 DEF ExamTypeOK, PressFor

LEMMA LoadTyped ==
  ASSUME ExamTypeOK, NEW c \in Call, NEW x \in Exam, NEW v, v \in {view} \cup {[view EXCEPT !.exam = y] : y \in Exam},
         LoadExam(c, x, v), presses' \in 0..MaxPresses
  PROVE  ExamTypeOK'
<1>1. /\ call' = Overtaking(c, [op |-> "load", exam |-> x, fresh |-> TRUE], {"load", "loaded"})
      /\ view' = [v EXCEPT !.shown = WhileExamLoads]
      /\ objects' = Collected(objects, view.list, call') /\ UNCHANGED <<site, scopes, slipped>>
  BY DEF LoadExam, LoadFor
<1>2. [op |-> "load", exam |-> x, fresh |-> TRUE] \in Calls /\ {"load", "loaded"} \in SUBSET Marked
  BY DEF Calls, LoadCall, Marked
<1>3. call' \in [Call -> Calls]
  BY <1>1, <1>2, OvertakingHas, ExamTypes
<1>4. objects' \in [1..MaxCopy -> [Subject -> Value]]
  <2>1. PICK l, cs : l = view.list /\ cs = call'
    OBVIOUS
  <2> QED
    BY <1>1, <2>1, CollectedHas, ExamTypes
<1>5. WhileExamLoads \in {"loading", "list"}
  BY DEF WhileExamLoads
<1>6. view' \in [exam : Exam, list : Seq(Object), known : BOOLEAN, shown : {"loading", "list", "error"}]
  BY <1>1, <1>5 DEF ExamTypeOK
<1> QED
  BY <1>1, <1>3, <1>4, <1>6, ExamTypes, TypedParts

LEMMA AnswerTyped ==
  ASSUME ExamTypeOK, NEW c \in Call, call[c].op # "none", NEW rows \in [Subject -> Stored], NEW next \in Calls,
         Answer(c, rows, next)
  PROVE  ExamTypeOK'
<1>1. [op |-> "failed"] \in Calls
  BY DEF Calls, FailedCall
<1>2. PICK ops : ops = {"loaded", "edited"} \cup (IF call[c].op \in Moves THEN Moves ELSE {})
  OBVIOUS
<1>3. ops \in SUBSET Marked
  BY <1>2 DEF Marked, Edits, Moves
<1>4. \/ scopes' = rows /\ call' = Overtaking(c, next, ops)
      \/ scopes' = rows /\ call' = Overtaking(c, [op |-> "failed"], ops)
      \/ scopes' = scopes /\ call' = [call EXCEPT ![c] = [op |-> "failed"]]
  BY <1>2 DEF Answer, Wrote
<1>5. call' \in [Call -> Calls] /\ scopes' \in [Subject -> Stored]
  <2>1. CASE scopes' = rows /\ call' = Overtaking(c, next, ops)
    BY <1>3, <2>1, OvertakingHas, ExamTypes
  <2>2. CASE scopes' = rows /\ call' = Overtaking(c, [op |-> "failed"], ops)
    <3>1. PICK q : q = [op |-> "failed"]
      OBVIOUS
    <3> QED
      BY <1>1, <1>3, <2>2, <3>1, OvertakingHas, ExamTypes
  <2>3. CASE scopes' = scopes /\ call' = [call EXCEPT ![c] = [op |-> "failed"]]
    BY <1>1, <2>3, ExamTypes
  <2> QED
    BY <1>4, <2>1, <2>2, <2>3
<1>6. objects' = Collected(objects, view.list, call') /\ UNCHANGED <<site, view, presses, slipped>>
  BY DEF Answer
<1>7. objects' \in [1..MaxCopy -> [Subject -> Value]]
  <2>1. PICK l, cs : l = view.list /\ cs = call'
    OBVIOUS
  <2> QED
    BY <1>6, <2>1, CollectedHas, ExamTypes
<1> QED
  BY <1>5, <1>6, <1>7, TypedParts DEF ExamTypeOK

LEMMA ExamTypeInit == ExamInit => ExamTypeOK
<1> SUFFICES ASSUME ExamInit PROVE ExamTypeOK
  OBVIOUS
<1>1. Blank \in Value
  BY ExamScopesAssumption DEF Blank, Value
<1>2. scopes \in [Subject -> [exam : Exam \cup {"NONE"}, val : Value]]
  <2>1. {v \in Value : v.text = 0} \subseteq Value
    OBVIOUS
  <2>2. scopes \in [Subject -> [exam : Exam \cup {"NONE"}, val : {v \in Value : v.text = 0}]]
    BY DEF ExamInit
  <2> QED
    BY <2>1, <2>2
<1>3. call \in [Call -> Calls]
  <2>1. [op |-> "load", exam |-> "MIDTERM", fresh |-> TRUE] \in Calls /\ NoCall \in Calls
    BY DEF Calls, LoadCall, Exam
  <2> QED
    BY <2>1 DEF ExamInit
<1>4. view \in [exam : Exam, list : Seq(Object), known : BOOLEAN, shown : {"loading", "list", "error"}]
  <2>1. <<>> \in Seq(Object) /\ "MIDTERM" \in Exam
    BY DEF Exam
  <2>2. view = [exam |-> "MIDTERM", list |-> <<>>, known |-> FALSE, shown |-> "loading"]
    BY DEF ExamInit
  <2>3. PICK e, l : e = "MIDTERM" /\ l = <<>>
    OBVIOUS
  <2>4. e \in Exam /\ l \in Seq(Object) /\ view = [exam |-> e, list |-> l, known |-> FALSE, shown |-> "loading"]
    BY <2>1, <2>2, <2>3
  <2> QED
    BY <2>4
<1>5. objects \in [1..MaxCopy -> [Subject -> Value]]
  BY <1>1 DEF ExamInit
<1>6. site \in {"home", "oj"} /\ presses \in 0..MaxPresses /\ slipped \in BOOLEAN
  <2>1. site \in {"home", "oj"} /\ presses = 0 /\ slipped = FALSE
    BY Zenon DEF ExamInit
  <2>2. presses \in 0..MaxPresses
    BY <2>1, ExamScopesAssumption
  <2> QED
    BY <2>1, <2>2, Zenon
<1> QED
  BY <1>2, <1>3, <1>4, <1>5, <1>6 DEF ExamTypeOK

-----------------------------------------------------------------------------
LEMMA SelectTyped == ASSUME ExamTypeOK, NEW c \in Call, SelectExam(c) PROVE ExamTypeOK'
<1>1. PICK x \in Exam : LoadExam(c, x, [view EXCEPT !.exam = x])
  BY DEF SelectExam
<1>2. presses' \in 0..MaxPresses
  BY ExamScopesAssumption DEF SelectExam, ExamTypeOK
<1> QED
  BY <1>1, <1>2, LoadTyped

LEMMA AsSequence == ASSUME NEW S, NEW n \in Nat, NEW f \in [1..n -> S] PROVE f \in Seq(S)
  OBVIOUS

LEMMA ReadTyped == ASSUME ExamTypeOK, NEW c \in Call, ReadExam(c) PROVE ExamTypeOK'
<1>1. PICK order, rows :
        /\ order \in Lists!SeqOf(Subject, Cardinality(Subject))
        /\ rows = [i \in DOMAIN order |-> <<order[i], scopes[order[i]].val>>]
        /\ Step(c, [op |-> "loaded", exam |-> call[c].exam, fresh |-> call[c].fresh, rows |-> rows])
  BY DEF ReadExam
<1>2. PICK m \in Nat : order \in [1..m -> Subject]
  <2>1. Cardinality(Subject) \in Nat
    BY ExamScopesAssumption, FS_CardinalityType
  <2> QED
    <3>1. PICK n \in Nat : n = Cardinality(Subject)
      BY <2>1
    <3>2. order \in UNION {[1..m -> Subject] : m \in 0..n}
      BY <1>1, <3>1 DEF Lists!SeqOf
    <3>3. PICK m \in 0..n : order \in [1..m -> Subject]
      BY <3>2, Zenon
    <3>4. m \in Nat
      BY <3>1
    <3> QED
      BY <3>3, <3>4
<1>3. rows \in Seq(Subject \X Value)
  <2>1. \A s \in Subject : scopes[s].val \in Value
    BY ExamTypes DEF Stored
  <2>2. rows \in [1..m -> Subject \X Value]
    BY <1>1, <1>2, <2>1
  <2> QED
    BY <2>2, AsSequence
<1>4. call[c] \in LoadCall
  BY CallKinds, ExamTypes DEF ReadExam
<1>5. [op |-> "loaded", exam |-> call[c].exam, fresh |-> call[c].fresh, rows |-> rows] \in Calls
  BY <1>3, <1>4 DEF LoadCall, LoadedCall, Calls
<1> QED
  BY <1>1, <1>5, StepTyped

\* What ShowExam makes of an answer.
LEMMA ListOfHas ==
  ASSUME NEW rows \in Seq(Subject \X Value), NEW k \in 1..MaxCopy
  PROVE  /\ ListOf(rows, k) \in Seq(Object) /\ ValuesOf(rows) \in [Subject -> Value]
         /\ DOMAIN ListOf(rows, k) = 1..Len(rows) /\ DOMAIN rows = 1..Len(rows)
         /\ \A i \in 1..Len(rows) : /\ ListOf(rows, k)[i] = [copy |-> k, of |-> rows[i][1]]
                                   /\ rows[i][1] \in Subject /\ rows[i][2] \in Value
<1>1. \A i \in 1..Len(rows) : rows[i] \in Subject \X Value /\ rows[i][1] \in Subject /\ rows[i][2] \in Value
  OBVIOUS
<1>2. ListOf(rows, k) = [i \in 1..Len(rows) |-> [copy |-> k, of |-> rows[i][1]]]
  BY DEF ListOf
<1>3. ListOf(rows, k) \in Seq(Object)
  <2>1. \A i \in 1..Len(rows) : [copy |-> k, of |-> rows[i][1]] \in Object
    BY <1>1 DEF Object
  <2>2. ListOf(rows, k) \in [1..Len(rows) -> Object] /\ Len(rows) \in Nat
    BY <1>2, <2>1
  <2> QED
    BY <2>2, AsSequence
<1>4. ValuesOf(rows) \in [Subject -> Value]
  <2>1. Blank \in Value
    BY ExamScopesAssumption DEF Blank, Value
  <2>2. ASSUME NEW s \in Subject, \E i \in 1..Len(rows) : rows[i][1] = s
        PROVE  rows[CHOOSE i \in 1..Len(rows) : rows[i][1] = s][2] \in Value
    BY <1>1, <2>2
  <2> QED
    BY <2>1, <2>2 DEF ValuesOf
<1> QED
  BY <1>1, <1>2, <1>3, <1>4

LEMMA ShowTyped == ASSUME ExamTypeOK, NEW c \in Call, ShowExam(c) PROVE ExamTypeOK'
<1>a1. PICK k \in 1..MaxCopy : \E how :
              /\ how = (IF site = "oj" /\ view.shown = "error" THEN view.shown ELSE "list")
              /\ view' = [view EXCEPT !.list = ListOf(call[c].rows, k), !.known = TRUE, !.shown = how]
              /\ call' = Overtaking(c, NoCall, Edits \cup Moves)
              /\ objects' = Collected([objects EXCEPT ![k] = ValuesOf(call[c].rows)], ListOf(call[c].rows, k), call')
  BY Zenon DEF ShowExam
<1>1. PICK how :
              /\ how = (IF site = "oj" /\ view.shown = "error" THEN view.shown ELSE "list")
              /\ view' = [view EXCEPT !.list = ListOf(call[c].rows, k), !.known = TRUE, !.shown = how]
              /\ call' = Overtaking(c, NoCall, Edits \cup Moves)
              /\ objects' = Collected([objects EXCEPT ![k] = ValuesOf(call[c].rows)], ListOf(call[c].rows, k), call')
  BY <1>a1, Zenon
<1>2. /\ slipped' = (IF call[c].fresh THEN call[c].exam # view.exam ELSE TRUE)
      /\ UNCHANGED <<site, scopes, presses>>
  BY DEF ShowExam
<1>3. call[c] \in LoadedCall /\ call[c].rows \in Seq(Subject \X Value)
  <2>1. call[c] \in LoadedCall
    BY CallKinds, ExamTypes DEF ShowExam
  <2> QED
    BY <2>1 DEF LoadedCall
<1>4. PICK list, vals : list = ListOf(call[c].rows, k) /\ vals = ValuesOf(call[c].rows)
  OBVIOUS
<1>5. list \in Seq(Object) /\ vals \in [Subject -> Value]
  BY <1>3, <1>4, ListOfHas
<1>6. NoCall \in Calls /\ Edits \cup Moves \in SUBSET Marked
  BY DEF Calls, Marked
<1>7. call' \in [Call -> Calls]
  BY <1>1, <1>6, OvertakingHas, ExamTypes
<1>8. objects' \in [1..MaxCopy -> [Subject -> Value]]
  <2>1. PICK cs, heap : cs = call' /\ heap = [objects EXCEPT ![k] = vals]
    OBVIOUS
  <2>2. heap \in [1..MaxCopy -> [Subject -> Value]]
    BY <1>5, <2>1, ExamTypes
  <2>3. objects' = Collected(heap, list, cs)
    BY <1>1, <1>4, <2>1
  <2> QED
    BY <2>2, <2>3, CollectedHas
<1>9. view' \in [exam : Exam, list : Seq(Object), known : BOOLEAN, shown : {"loading", "list", "error"}]
  <2>1. how \in {"loading", "list", "error"}
    BY <1>1
  <2> QED
    BY <1>1, <1>4, <1>5, <2>1 DEF ExamTypeOK
<1>10. slipped' \in BOOLEAN
  BY <1>2, <1>3 DEF LoadedCall
<1> QED
  BY <1>2, <1>7, <1>8, <1>9, <1>10, TypedParts DEF ExamTypeOK, Stored

LEMMA LoadFailsTyped == ASSUME ExamTypeOK, NEW c \in Call, LoadFails(c) PROVE ExamTypeOK'
<1>1. /\ view' = IF site = "home" THEN [view EXCEPT !.shown = "error"]
                 ELSE [view EXCEPT !.shown = "error", !.known = FALSE, !.list = <<>>]
      /\ call' = [call EXCEPT ![c] = NoCall] /\ objects' = Collected(objects, view'.list, call')
      /\ slipped' = TRUE /\ UNCHANGED <<site, scopes, presses>>
  BY DEF LoadFails
<1>2. call' \in [Call -> Calls]
  BY <1>1, ExamTypes DEF Calls
<1>3. objects' \in [1..MaxCopy -> [Subject -> Value]]
  <2>1. PICK l, cs : l = view'.list /\ cs = call'
    OBVIOUS
  <2> QED
    BY <1>1, <2>1, CollectedHas, ExamTypes
<1>4. view' \in [exam : Exam, list : Seq(Object), known : BOOLEAN, shown : {"loading", "list", "error"}]
  <2>0. <<>> \in Seq(Object)
    OBVIOUS
  <2>1. PICK empty \in Seq(Object) : empty = <<>>
    BY <2>0
  <2>2. view' = IF site = "home" THEN [view EXCEPT !.shown = "error"]
                ELSE [view EXCEPT !.shown = "error", !.known = FALSE, !.list = empty]
    BY <1>1, <2>1
  <2> QED
    BY <2>2 DEF ExamTypeOK
<1> QED
  BY <1>1, <1>2, <1>3, <1>4, TypedParts DEF ExamTypeOK, Stored

LEMMA PressEditTyped == ASSUME ExamTypeOK, NEW c \in Call, PressEdit(c) PROVE ExamTypeOK'
<1>a1. PICK i \in 1..Len(view.list), f \in {"name", "text"}, v \in Value : \E x, o :
        /\ x = view.exam /\ o = view.list[i]
        /\ PressFor(c, [op |-> "edit", exam |-> x, fresh |-> TRUE, item |-> o, to |-> v, field |-> f])
  BY Zenon DEF PressEdit
<1>1. PICK x, o :
        /\ x = view.exam /\ o = view.list[i]
        /\ PressFor(c, [op |-> "edit", exam |-> x, fresh |-> TRUE, item |-> o, to |-> v, field |-> f])
  BY <1>a1, Zenon
<1>2. x \in Exam /\ o \in Object
  BY <1>1, ExamTypes
<1>3. [op |-> "edit", exam |-> x, fresh |-> TRUE, item |-> o, to |-> v, field |-> f] \in Calls
  BY <1>2 DEF EditCall, Calls
<1> QED
  BY <1>1, <1>3, PressTyped

LEMMA PressMoveTyped == ASSUME ExamTypeOK, NEW c \in Call, PressMove(c) PROVE ExamTypeOK'
<1>a1. PICK i \in 1..Len(view.list), j \in 1..Len(view.list) : \E x, o, p, a, b, t :
        /\ i <= MaxOrder + 1 /\ j <= MaxOrder + 1
        /\ x = view.exam /\ o = view.list[i] /\ p = view.list[j]
        /\ a = Swapped(view.list, i, j)[1] /\ b = Swapped(view.list, i, j)[2]
        /\ t = (Get(view.list[i]).order = Get(view.list[j]).order)
        /\ PressFor(c, [op |-> "move", exam |-> x, fresh |-> TRUE, item |-> o, other |-> p, i |-> i, j |-> j,
                        a |-> a, b |-> b, tied |-> t])
  BY Zenon DEF PressMove
<1>1. PICK x, o, p, a, b, t :
        /\ i <= MaxOrder + 1 /\ j <= MaxOrder + 1
        /\ x = view.exam /\ o = view.list[i] /\ p = view.list[j]
        /\ a = Swapped(view.list, i, j)[1] /\ b = Swapped(view.list, i, j)[2]
        /\ t = (Get(view.list[i]).order = Get(view.list[j]).order)
        /\ PressFor(c, [op |-> "move", exam |-> x, fresh |-> TRUE, item |-> o, other |-> p, i |-> i, j |-> j,
                        a |-> a, b |-> b, tied |-> t])
  BY <1>a1, Zenon
<1>2. x \in Exam /\ o \in Object /\ p \in Object /\ Get(o) \in Value /\ Get(p) \in Value /\ t \in BOOLEAN
  BY <1>1, ExamTypes
<1>3. a \in 0..MaxOrder /\ b \in 0..MaxOrder
  <2>1. Get(o).order \in 0..MaxOrder /\ Get(p).order \in 0..MaxOrder
    BY <1>2 DEF Value
  <2>2. CASE Get(o).order = Get(p).order
    <3>1. Swapped(view.list, i, j) = <<i - 1, j - 1>>
      BY <1>1, <2>2 DEF Swapped
    <3>2. i \in Nat /\ j \in Nat /\ i >= 1 /\ j >= 1
      OBVIOUS
    <3>3. a = i - 1 /\ b = j - 1
      BY <1>1, <3>1
    <3>4. i <= MaxOrder + 1 /\ j <= MaxOrder + 1
      BY <1>1
    <3> QED
      BY <3>2, <3>3, <3>4, ExamScopesAssumption
  <2>3. CASE Get(o).order # Get(p).order
    <3>1. Swapped(view.list, i, j) = <<Get(o).order, Get(p).order>>
      BY <1>1, <2>3 DEF Swapped
    <3> QED
      BY <1>1, <2>1, <3>1
  <2> QED
    BY <2>2, <2>3
<1>4. i \in 1..(MaxOrder + 1) /\ j \in 1..(MaxOrder + 1)
  BY <1>1, ExamScopesAssumption
<1>5. [op |-> "move", exam |-> x, fresh |-> TRUE, item |-> o, other |-> p, i |-> i, j |-> j,
       a |-> a, b |-> b, tied |-> t] \in Calls
  BY <1>2, <1>3, <1>4 DEF MoveCall, Calls
<1> QED
  BY <1>1, <1>5, PressTyped

LEMMA PressAddTyped == ASSUME ExamTypeOK, NEW c \in Call, PressAdd(c) PROVE ExamTypeOK'
<1>a1. PICK n \in 1..MaxName : \E x :
        x = view.exam /\ PressFor(c, [op |-> "add", exam |-> x, name |-> n, order |-> 0])
  BY Zenon DEF PressAdd
<1>1. PICK x :
        x = view.exam /\ PressFor(c, [op |-> "add", exam |-> x, name |-> n, order |-> 0])
  BY <1>a1, Zenon
<1>2. [op |-> "add", exam |-> x, name |-> n, order |-> 0] \in Calls
  BY <1>1, ExamTypes, ExamScopesAssumption DEF AddCall, Calls
<1> QED
  BY <1>1, <1>2, PressTyped

Rewritten(s, v) == [scopes EXCEPT ![s].val = v]

LEMMA RowTyped ==
  ASSUME ExamTypeOK, NEW s \in Subject, NEW v \in Value PROVE Rewritten(s, v) \in [Subject -> Stored]
<1>1. PICK r : r = [scopes[s] EXCEPT !.val = v]
  OBVIOUS
<1>2. r \in Stored
  BY <1>1, ExamTypes DEF Stored
<1>3. Rewritten(s, v) = [scopes EXCEPT ![s] = r]
  BY <1>1 DEF Rewritten
<1>4. [scopes EXCEPT ![s] = r] \in [Subject -> Stored]
  BY <1>2, ExamTypes
<1> QED
  BY <1>3, <1>4

\* What an edit makes of a subject.
Having(v, f, x) == [v EXCEPT ![f] = x]

LEMMA FieldTyped ==
  ASSUME NEW v \in Value, NEW w \in Value, NEW f \in {"name", "text"}
  PROVE  Having(v, f, w[f]) \in Value
<1>1. CASE f = "name"
  BY <1>1 DEF Value, Having
<1>2. CASE f = "text"
  BY <1>2 DEF Value, Having
<1> QED
  BY <1>1, <1>2

LEMMA ServeEditTyped == ASSUME ExamTypeOK, NEW c \in Call, ServeEdit(c) PROVE ExamTypeOK'
<1>1. PICK m : m = call[c]
  OBVIOUS
<1>2. m \in EditCall /\ m.op = "edit"
  BY <1>1, CallKinds, ExamTypes DEF ServeEdit, Edits
<1>3. PICK s, f, w : s = m.item.of /\ f = m.field /\ w = m.to
  OBVIOUS
<1>4. s \in Subject /\ f \in {"name", "text"} /\ w \in Value
  BY <1>2, <1>3 DEF EditCall, Object
<1>5. \/ Step(c, [op |-> "failed"])
      \/ Answer(c, [scopes EXCEPT ![s].val[f] = w[f]], [m EXCEPT !.op = "edited"])
  BY <1>1, <1>3, Zenon DEF ServeEdit
<1>6. [op |-> "failed"] \in Calls
  BY DEF Calls, FailedCall
<1>7. [m EXCEPT !.op = "edited"] \in Calls
  BY <1>2 DEF EditCall, Calls
<1>8. [scopes EXCEPT ![s].val[f] = w[f]] \in [Subject -> Stored]
  <2>1. PICK v : v = scopes[s].val
    OBVIOUS
  <2>2. v \in Value
    BY <1>4, <2>1, ExamTypes DEF Stored
  <2>3. PICK u \in Value : u = Having(v, f, w[f])
    BY <1>4, <2>2, FieldTyped
  <2>4. [scopes EXCEPT ![s].val[f] = w[f]] = Rewritten(s, u)
    BY <2>1, <2>3 DEF Having, Rewritten
  <2>5. Rewritten(s, u) \in [Subject -> Stored]
    BY <1>4, <2>3, RowTyped
  <2> QED
    BY <2>4, <2>5
<1>9. CASE Step(c, [op |-> "failed"])
  <2>1. PICK q \in Calls : q = [op |-> "failed"]
    BY <1>6
  <2> QED
    BY <1>9, <2>1, StepTyped
<1>10. CASE Answer(c, [scopes EXCEPT ![s].val[f] = w[f]], [m EXCEPT !.op = "edited"])
  <2>1. PICK rows \in [Subject -> Stored], q \in Calls :
          rows = [scopes EXCEPT ![s].val[f] = w[f]] /\ q = [m EXCEPT !.op = "edited"]
    BY <1>7, <1>8
  <2> QED
    BY <1>1, <1>2, <1>10, <2>1, AnswerTyped
<1> QED
  BY <1>5, <1>9, <1>10

LEMMA OrderTyped == ASSUME NEW v \in Value, NEW n \in 0..MaxOrder PROVE [v EXCEPT !.order = n] \in Value
  BY DEF Value

LEMMA ServeMoveTyped == ASSUME ExamTypeOK, NEW c \in Call, ServeMove(c) PROVE ExamTypeOK'
<1>1. PICK m : m = call[c]
  OBVIOUS
<1>2. m \in MoveCall /\ m.op # "none"
  BY <1>1, CallKinds, ExamTypes DEF ServeMove, Moves
<1>3. PICK s, n, now : /\ s \in Subject /\ n \in 0..MaxOrder /\ now \in {"half", "moved"}
                        /\ Answer(c, [scopes EXCEPT ![s].val.order = n], [m EXCEPT !.op = now])
  <2>1. m.item.of \in Subject /\ m.other.of \in Subject /\ m.a \in 0..MaxOrder /\ m.b \in 0..MaxOrder
    BY <1>2 DEF MoveCall, Object
  <2>2. CASE m.op = "move"
    BY <1>1, <2>1, <2>2, Zenon DEF ServeMove
  <2>3. CASE m.op # "move"
    BY <1>1, <2>1, <2>3, Zenon DEF ServeMove
  <2> QED
    BY <2>2, <2>3
<1>4. [m EXCEPT !.op = now] \in Calls
  BY <1>2, <1>3 DEF MoveCall, Calls
<1>5. [scopes EXCEPT ![s].val.order = n] \in [Subject -> Stored]
  <2>0. scopes[s].val \in Value
    BY <1>3, ExamTypes DEF Stored
  <2>1. PICK v : v = [scopes[s].val EXCEPT !.order = n]
    OBVIOUS
  <2>2. v \in Value
    BY <1>3, <2>0, <2>1, OrderTyped
  <2>3. [scopes EXCEPT ![s].val.order = n] = Rewritten(s, v)
    BY <2>1 DEF Rewritten
  <2>4. Rewritten(s, v) \in [Subject -> Stored]
    <3>1. s \in Subject
      BY <1>3
    <3> QED
      BY <2>2, <3>1, RowTyped
  <2> QED
    BY <2>3, <2>4
<1>6. PICK rows \in [Subject -> Stored], q \in Calls :
        rows = [scopes EXCEPT ![s].val.order = n] /\ q = [m EXCEPT !.op = now]
  BY <1>4, <1>5
<1> QED
  BY <1>1, <1>2, <1>3, <1>6, AnswerTyped

LEMMA ServeLastTyped == ASSUME ExamTypeOK, NEW c \in Call, ServeLast(c) PROVE ExamTypeOK'
<1>1. PICK m : m = call[c]
  OBVIOUS
<1>2. m \in AddCall /\ m.op = "add"
  <2>1. m.op = "add"
    BY <1>1, Zenon DEF ServeLast
  <2> QED
    BY <1>1, <2>1, CallKinds, ExamTypes
<1>3. [op |-> "failed"] \in Calls
  BY DEF Calls, FailedCall
<1>4. CASE Step(c, [op |-> "failed"])
  <2>1. PICK q \in Calls : q = [op |-> "failed"]
    BY <1>3
  <2> QED
    BY <1>4, <2>1, StepTyped
<1>5. ASSUME NEW n \in 0..(MaxOrder - 1), Step(c, [m EXCEPT !.op = "place", !.order = n + 1]) PROVE ExamTypeOK'
  <2>1. n + 1 \in 0..MaxOrder
    BY ExamScopesAssumption
  <2>2. PICK q \in Calls : q = [m EXCEPT !.op = "place", !.order = n + 1]
    BY <1>2, <2>1 DEF AddCall, Calls
  <2> QED
    BY <1>5, <2>2, StepTyped
<1> QED
  BY <1>1, <1>4, <1>5, Zenon DEF ServeLast

LEMMA ServeAddTyped == ASSUME ExamTypeOK, NEW c \in Call, ServeAdd(c) PROVE ExamTypeOK'
<1>1. PICK m : m = call[c]
  OBVIOUS
<1>2. m \in AddCall /\ m.op = "place"
  BY <1>1, CallKinds, ExamTypes DEF ServeAdd
<1>3. [op |-> "failed"] \in Calls
  BY DEF Calls, FailedCall
<1>4. CASE Step(c, [op |-> "failed"])
  <2>1. PICK q \in Calls : q = [op |-> "failed"]
    BY <1>3
  <2> QED
    BY <1>4, <2>1, StepTyped
<1>5. ASSUME NEW s, s = (CHOOSE x \in Of("NONE") : TRUE), Of("NONE") # {}, NEW row,
             row = [exam |-> m.exam, val |-> [name |-> m.name, order |-> m.order, text |-> 0]],
             Answer(c, [scopes EXCEPT ![s] = row], [m EXCEPT !.op = "added"])
      PROVE  ExamTypeOK'
  <2>1. s \in Subject
    BY <1>5 DEF Of
  <2>2. row \in Stored
    BY <1>2, <1>5 DEF Stored, Value, AddCall
  <2>3. PICK rows \in [Subject -> Stored], q \in Calls : rows = [scopes EXCEPT ![s] = row] /\ q = [m EXCEPT !.op = "added"]
    BY <1>2, <2>1, <2>2, ExamTypes DEF AddCall, Calls
  <2> QED
    BY <1>1, <1>2, <1>5, <2>3, AnswerTyped
<1> QED
  BY <1>1, <1>4, <1>5, Zenon DEF ServeAdd

LEMMA FinishEditTyped == ASSUME ExamTypeOK, NEW c \in Call, FinishEdit(c) PROVE ExamTypeOK'
<1>1. PICK m : m = call[c]
  OBVIOUS
<1>2. m \in EditCall /\ m.op = "edited"
  <2>1. m.op = "edited"
    BY <1>1, Zenon DEF FinishEdit
  <2> QED
    BY <1>1, <2>1, CallKinds, ExamTypes DEF Edits
<1>3. CASE site = "oj"
  <2>1. LoadExam(c, m.exam, view) /\ presses' = presses
    BY <1>1, <1>3, Zenon DEF FinishEdit
  <2>2. m.exam \in Exam /\ presses' \in 0..MaxPresses
    BY <1>2, <2>1 DEF EditCall, ExamTypeOK
  <2> QED
    BY <2>1, <2>2, LoadTyped
<1>4. CASE site # "oj"
  <2>1. PICK heap, l, cs : /\ heap = Put(m.item, m.field, m.to[m.field]) /\ l = view.list /\ cs = call'
                           /\ objects' = Collected(heap, l, cs)
                           /\ view' = [view EXCEPT !.shown = "list"]
                           /\ call' = [call EXCEPT ![c] = NoCall]
                           /\ slipped' = (slipped \/ ~m.fresh)
                           /\ UNCHANGED <<site, scopes, presses>>
    BY <1>1, <1>4, Zenon DEF FinishEdit
  <2>2. heap \in [1..MaxCopy -> [Subject -> Value]]
    <3>1. PICK o, f, w : o = m.item /\ f = m.field /\ w = m.to
      OBVIOUS
    <3>2. o \in Object /\ f \in {"name", "text"} /\ w \in Value
      BY <1>2, <3>1 DEF EditCall
    <3>3. PICK v : v = objects[o.copy][o.of]
      OBVIOUS
    <3>4. v \in Value
      BY <3>2, <3>3, ExamTypes DEF Get
    <3>5. PICK u \in Value : u = Having(v, f, w[f])
      BY <3>2, <3>4, FieldTyped
    <3>6. heap = [objects EXCEPT ![o.copy][o.of] = u]
      BY <2>1, <3>1, <3>3, <3>5 DEF Put, Having
    <3> QED
      BY <3>2, <3>6, ExamTypes DEF Object
  <2>3. objects' \in [1..MaxCopy -> [Subject -> Value]]
    BY <2>1, <2>2, CollectedHas
  <2>4. call' \in [Call -> Calls]
    BY <2>1, ExamTypes DEF Calls
  <2>5. view' \in [exam : Exam, list : Seq(Object), known : BOOLEAN, shown : {"loading", "list", "error"}]
    BY <2>1 DEF ExamTypeOK
  <2>6. slipped' \in BOOLEAN
    BY <1>2, <2>1, ExamTypes DEF EditCall
  <2> QED
    BY <2>1, <2>3, <2>4, <2>5, <2>6, TypedParts DEF ExamTypeOK, Stored
<1> QED
  BY <1>3, <1>4

\* Two neighbours of a list change places; elsewhere a list stays one.
LEMMA SplicedTyped ==
  ASSUME NEW S, NEW list \in Seq(S), NEW i \in Nat, NEW j \in Nat, NEW o \in S, i >= 1, j >= 1
  PROVE  Spliced(list, i, j, o) \in Seq(S)
<1>1. PICK rest : rest = IF i <= Len(list) THEN Lists!RemoveAt(list, i) ELSE list
  OBVIOUS
<1>2. rest \in Seq(S)
  <2>1. CASE i <= Len(list)
    <3>1. Lists!RemoveAt(list, i) = SubSeq(list, 1, i - 1) \o SubSeq(list, i + 1, Len(list))
      BY DEF Lists!RemoveAt
    <3>2. SubSeq(list, 1, i - 1) \in Seq(S) /\ SubSeq(list, i + 1, Len(list)) \in Seq(S)
      BY <2>1
    <3> QED
      BY <1>1, <2>1, <3>1, <3>2
  <2> QED
    BY <1>1, <2>1
<1>3. PICK p \in 1..(Len(rest) + 1) : p = IF j <= Len(rest) THEN j ELSE Len(rest) + 1
  BY <1>2
<1>4. Spliced(list, i, j, o) = Lists!InsertAt(rest, p, o)
  BY <1>1, <1>3 DEF Spliced
<1>5. Lists!InsertAt(rest, p, o) = SubSeq(rest, 1, p - 1) \o <<o>> \o SubSeq(rest, p, Len(rest))
  BY DEF Lists!InsertAt
<1>6. SubSeq(rest, 1, p - 1) \in Seq(S) /\ SubSeq(rest, p, Len(rest)) \in Seq(S) /\ <<o>> \in Seq(S)
  BY <1>2
<1> QED
  BY <1>4, <1>5, <1>6

Numbered(heap, o, n) == [heap EXCEPT ![o.copy][o.of].order = n]

NumberedIs(p, heap, o, n) ==
  \A q \in Object : p[q.copy][q.of] = IF q = o THEN [heap[q.copy][q.of] EXCEPT !.order = n] ELSE heap[q.copy][q.of]

LEMMA NumberedTyped ==
  ASSUME NEW heap \in [1..MaxCopy -> [Subject -> Value]], NEW o \in Object, NEW n \in 0..MaxOrder,
         NEW p, p = Numbered(heap, o, n)
  PROVE  p \in [1..MaxCopy -> [Subject -> Value]] /\ NumberedIs(p, heap, o, n)
<1>1. PICK k, s : k = o.copy /\ s = o.of
  OBVIOUS
<1>2. k \in 1..MaxCopy /\ s \in Subject /\ o = [copy |-> k, of |-> s]
  BY <1>1 DEF Object
<1>3. PICK v : v = [heap[k][s] EXCEPT !.order = n]
  OBVIOUS
<1>4. v \in Value
  BY <1>2, <1>3, OrderTyped
<1>5. p = [heap EXCEPT ![k][s] = v]
  BY <1>1, <1>3 DEF Numbered
<1>6. PICK A, V : A = 1..MaxCopy /\ V = Value
  OBVIOUS
<1>7. heap \in [A -> [Subject -> V]] /\ k \in A /\ v \in V
  BY <1>2, <1>4, <1>6
<1>8. /\ p \in [A -> [Subject -> V]]
      /\ \A l \in A, t \in Subject : p[l][t] = IF l = k /\ t = s THEN v ELSE heap[l][t]
  <2>1. PICK h, r : h = heap[k] /\ r = [h EXCEPT ![s] = v]
    OBVIOUS
  <2>2. s \in Subject
    BY <1>2
  <2>3. r \in [Subject -> V] /\ r[s] = v /\ \A t \in Subject : t # s => r[t] = h[t]
    BY <1>7, <2>1, <2>2
  <2>4. p = [heap EXCEPT ![k] = r]
    BY <1>5, <2>1
  <2>5. p \in [A -> [Subject -> V]] /\ p[k] = r /\ \A l \in A : l # k => p[l] = heap[l]
    BY <1>7, <2>3, <2>4
  <2> QED
    BY <2>1, <2>3, <2>5
<1>9. ASSUME NEW q \in Object
      PROVE  p[q.copy][q.of] = IF q = o THEN [heap[q.copy][q.of] EXCEPT !.order = n] ELSE heap[q.copy][q.of]
  <2>1. PICK l, t : l = q.copy /\ t = q.of
    OBVIOUS
  <2>2. l \in A /\ t \in Subject /\ q = [copy |-> l, of |-> t]
    BY <1>6, <2>1 DEF Object
  <2>3. q = o <=> l = k /\ t = s
    BY <1>2, <2>2
  <2>4. p[l][t] = IF l = k /\ t = s THEN v ELSE heap[l][t]
    BY <1>8, <2>2
  <2> QED
    BY <1>3, <2>1, <2>3, <2>4
<1> QED
  BY <1>6, <1>8, <1>9 DEF NumberedIs

LEMMA FinishMoveTyped == ASSUME ExamTypeOK, NEW c \in Call, FinishMove(c) PROVE ExamTypeOK'
<1>1. PICK m : m = call[c]
  OBVIOUS
<1>2. m \in MoveCall /\ m.op = "moved"
  <2>1. m.op = "moved"
    BY <1>1, Zenon DEF FinishMove
  <2> QED
    BY <1>1, <2>1, CallKinds, ExamTypes DEF Moves
<1>3. CASE site = "oj"
  <2>1. LoadExam(c, m.exam, view) /\ presses' = presses
    BY <1>1, <1>3, Zenon DEF FinishMove
  <2>2. m.exam \in Exam /\ presses' \in 0..MaxPresses
    BY <1>2, <2>1 DEF MoveCall, ExamTypeOK
  <2> QED
    BY <2>1, <2>2, LoadTyped
<1>4. CASE site # "oj"
  <2>1. PICK heap, l, cs : /\ heap = Renumbered(m) /\ l = Spliced(view.list, m.i, m.j, m.item) /\ cs = call'
                           /\ objects' = Collected(heap, l, cs)
                           /\ view' = [view EXCEPT !.shown = "list", !.list = l]
                           /\ call' = Overtaking(c, NoCall, Moves)
                           /\ slipped' = (slipped \/ ~m.fresh \/ m.tied)
                           /\ UNCHANGED <<site, scopes, presses>>
    BY <1>1, <1>4, Zenon DEF FinishMove
  <2>2. heap \in [1..MaxCopy -> [Subject -> Value]]
    <3>1. PICK o, q, a, b : o = m.item /\ q = m.other /\ a = m.a /\ b = m.b
      OBVIOUS
    <3>2. o \in Object /\ q \in Object /\ a \in 0..MaxOrder /\ b \in 0..MaxOrder
      BY <1>2, <3>1 DEF MoveCall
    <3>3. PICK one : one = Numbered(objects, o, b)
      OBVIOUS
    <3>4. one \in [1..MaxCopy -> [Subject -> Value]]
      BY <3>2, <3>3, ExamTypes, NumberedTyped
    <3>5. heap = Numbered(one, q, a)
      BY <2>1, <3>1, <3>3, Zenon DEF Renumbered, Numbered
    <3> QED
      BY <3>2, <3>4, <3>5, NumberedTyped
  <2>3. objects' \in [1..MaxCopy -> [Subject -> Value]]
    BY <2>1, <2>2, CollectedHas
  <2>4. call' \in [Call -> Calls]
    <3>1. NoCall \in Calls /\ Moves \in SUBSET Marked
      BY DEF Calls, Marked
    <3> QED
      BY <2>1, <3>1, OvertakingHas, ExamTypes
  <2>5. l \in Seq(Object)
    <3>1. PICK i \in 1..(MaxOrder + 1), j \in 1..(MaxOrder + 1), o \in Object : i = m.i /\ j = m.j /\ o = m.item
      BY <1>2 DEF MoveCall
    <3>2. i \in Nat /\ j \in Nat /\ i >= 1 /\ j >= 1
      OBVIOUS
    <3> QED
      BY <2>1, <3>1, <3>2, ExamTypes, SplicedTyped
  <2>6. view' \in [exam : Exam, list : Seq(Object), known : BOOLEAN, shown : {"loading", "list", "error"}]
    BY <2>1, <2>5 DEF ExamTypeOK
  <2>7. slipped' \in BOOLEAN
    BY <1>2, <2>1, ExamTypes DEF MoveCall
  <2> QED
    BY <2>1, <2>3, <2>4, <2>6, <2>7, TypedParts DEF ExamTypeOK, Stored
<1> QED
  BY <1>3, <1>4

LEMMA FinishAddTyped == ASSUME ExamTypeOK, NEW c \in Call, FinishAdd(c) PROVE ExamTypeOK'
<1>1. PICK x : LoadExam(c, x, view) /\ x = (IF site = "home" THEN view.exam ELSE call[c].exam)
  BY DEF FinishAdd
<1>2. call[c] \in AddCall /\ presses' = presses
  BY CallKinds, ExamTypes DEF FinishAdd
<1>3. x \in Exam /\ presses' \in 0..MaxPresses
  BY <1>1, <1>2, ExamTypes DEF AddCall, ExamTypeOK
<1> QED
  BY <1>1, <1>3, LoadTyped

LEMMA AlertTyped == ASSUME ExamTypeOK, NEW c \in Call, Alert(c) PROVE ExamTypeOK'
<1>1. call' = [call EXCEPT ![c] = NoCall] /\ slipped' = TRUE /\ UNCHANGED <<site, scopes, objects, view, presses>>
  BY DEF Alert
<1>2. call' \in [Call -> Calls]
  BY <1>1, ExamTypes DEF Calls
<1> QED
  BY <1>1, <1>2 DEF ExamTypeOK

LEMMA ExamStepTyped == ExamTypeOK /\ [ExamNext]_examVars => ExamTypeOK'
<1> SUFFICES ASSUME ExamTypeOK, [ExamNext]_examVars PROVE ExamTypeOK'
  OBVIOUS
<1>1. CASE UNCHANGED examVars
  BY <1>1 DEF ExamTypeOK, examVars
<1>2. CASE ExamNext
  BY <1>2, SelectTyped, ReadTyped, ShowTyped, LoadFailsTyped, PressEditTyped, PressMoveTyped, PressAddTyped,
     ServeEditTyped, ServeMoveTyped, ServeLastTyped, ServeAddTyped, FinishEditTyped, FinishMoveTyped,
     FinishAddTyped, AlertTyped, Zenon DEF ExamNext
<1> QED
  BY <1>1, <1>2

-----------------------------------------------------------------------------
(* The invariant: what the requests in flight, the list and the rows have to do with each other. *)

\* A subject that has been added: it stays.
IsRow(s) == scopes[s].exam # "NONE"

CallKnown(r) ==
  /\ r.op \in Edits \cup Moves => IsRow(r.item.of)
  /\ r.op \in Moves => IsRow(r.other.of)
  /\ r.op = "loaded" => \A i \in DOMAIN r.rows : IsRow(r.rows[i][1])

\* No write overtook the answer.
CallRead(r) == r.op = "loaded" /\ r.fresh => IsStored(r.rows, r.exam)

\* The list still is the one the button was pressed in, and what the service answered still is stored.
EditPressed(r) ==
  r.op \in Edits /\ r.fresh =>
    /\ \E i \in DOMAIN view.list : view.list[i] = r.item
    /\ r.op = "edited" => scopes[r.item.of].val[r.field] = r.to[r.field]

MovePressed(r) ==
  r.op \in Moves /\ r.fresh =>
    /\ r.i \in DOMAIN view.list /\ r.j \in DOMAIN view.list /\ r.j \in {r.i - 1, r.i + 1}
    /\ view.list[r.i] = r.item /\ view.list[r.j] = r.other
    /\ ~r.tied => Get(r.item).order = r.a /\ Get(r.other).order = r.b
    /\ r.op # "move" /\ r.item.of # r.other.of => scopes[r.item.of].val.order = r.b
    /\ r.op = "moved" => scopes[r.other.of].val.order = r.a

\* A request that will load the list again, or excuse the page.
Due(r) ==
  \/ r.op \in {"load", "loaded", "added", "failed"}
  \/ r.op \in {"edited", "half", "moved"} /\ (site = "oj" \/ ~r.fresh)
  \/ r.op \in {"half", "moved"} /\ r.tied

\* An answer on its way will set field f of o.
Brings(r, o, f) ==
  \/ r.op = "edited" /\ r.item = o /\ r.field = f
  \/ r.op \in {"half", "moved"} /\ r.item = o /\ f = "order"
  \/ r.op = "moved" /\ r.other = o /\ f = "order"

Coming(o, f) == \E c \in Call : Brings(call[c], o, f)

SameSubjects ==
  /\ {view.list[i].of : i \in DOMAIN view.list} = Of(view.exam)
  /\ \A i, j \in DOMAIN view.list : i # j => view.list[i].of # view.list[j].of

SameValues ==
  \A i \in DOMAIN view.list, f \in {"name", "order", "text"} :
    Coming(view.list[i], f) \/ Get(view.list[i])[f] = scopes[view.list[i].of].val[f]

InOrder ==
  /\ site = "home" => \A i, j \in DOMAIN view.list : i < j => Get(view.list[i]).order <= Get(view.list[j]).order
  /\ site = "oj" => \A i, j \in DOMAIN view.list : i < j => Precedes(view.list[i].of, view.list[j].of)

ExamKnown == /\ \A i \in DOMAIN view.list : IsRow(view.list[i].of)
             /\ \A c \in Call : CallKnown(call[c])
ExamReads == \A c \in Call : CallRead(call[c])
ExamPresses == site = "home" /\ ~slipped => \A c \in Call : EditPressed(call[c]) /\ MovePressed(call[c])
ExamLoads == view.shown = "loading" => \E c \in Call : call[c].op \in {"load", "loaded"}
ExamShows == ~slipped => (SameSubjects /\ SameValues /\ InOrder) \/ \E c \in Call : Due(call[c])

ExamInv == ExamTypeOK /\ ExamKnown /\ ExamReads /\ ExamPresses /\ ExamLoads /\ ExamShows

\* The requests but c go on, some no longer fresh.
Aside(c) == \A d \in Call \ {c} : call'[d] = call[d] \/ StaleOf(call'[d], call[d])

LEMMA AsideHas ==
  ASSUME ExamTypeOK, NEW c \in Call, UNCHANGED site, Aside(c)
  PROVE  \A d \in Call \ {c} :
           /\ call'[d].op = call[d].op
           /\ Due(call[d]) => Due(call[d])'
           /\ \A o, f : Brings(call[d], o, f) => Brings(call[d], o, f)'
<1> SUFFICES ASSUME NEW d \in Call \ {c}
             PROVE  /\ call'[d].op = call[d].op
                    /\ Due(call[d]) => Due(call[d])'
                    /\ \A o, f : Brings(call[d], o, f) => Brings(call[d], o, f)'
  OBVIOUS
<1>1. CASE call'[d] = call[d]
  BY <1>1 DEF Due, Brings
<1>2. CASE StaleOf(call'[d], call[d])
  BY <1>2 DEF StaleOf, Due, Brings, Edits, Moves
<1> QED
  BY <1>1, <1>2 DEF Aside

\* While the rows and the list stay, the requests aside stay what they were.
LEMMA AsideKept ==
  ASSUME ExamTypeOK, NEW c \in Call, UNCHANGED scopes, Aside(c), ExamKnown, ExamReads
  PROVE  \A d \in Call \ {c} : CallKnown(call[d])' /\ CallRead(call[d])'
<1> SUFFICES ASSUME NEW d \in Call \ {c} PROVE CallKnown(call[d])' /\ CallRead(call[d])'
  OBVIOUS
<1>1. CallKnown(call[d]) /\ CallRead(call[d])
  BY DEF ExamKnown, ExamReads
<1>2. CASE call'[d] = call[d]
  <2>1. PICK r : r = call[d] /\ r = call'[d]
    BY <1>2
  <2>2. CallKnown(r)' = CallKnown(r)
    BY DEF CallKnown, IsRow
  <2>3. CallRead(r)' = CallRead(r)
    <3>1. IsStored(r.rows, r.exam)' = IsStored(r.rows, r.exam)
      BY DEF IsStored, Of, Precedes
    <3> QED
      BY <3>1 DEF CallRead
  <2> QED
    BY <1>1, <2>1, <2>2, <2>3
<1>3. CASE StaleOf(call'[d], call[d])
  BY <1>1, <1>3 DEF StaleOf, CallKnown, CallRead, IsRow
<1> QED
  BY <1>2, <1>3 DEF Aside

LEMMA AsidePressed ==
  ASSUME ExamTypeOK, NEW c \in Call, UNCHANGED scopes, Aside(c), view'.list = view.list,
         \A i \in DOMAIN view.list : (Get(view.list[i]).order)' = Get(view.list[i]).order,
         \A d \in Call : EditPressed(call[d]) /\ MovePressed(call[d])
  PROVE  \A d \in Call \ {c} : EditPressed(call[d])' /\ MovePressed(call[d])'
<1> SUFFICES ASSUME NEW d \in Call \ {c} PROVE EditPressed(call[d])' /\ MovePressed(call[d])'
  OBVIOUS
<1>2. CASE call'[d] = call[d]
  <2>1. EditPressed(call[d])'
    BY <1>2 DEF EditPressed
  <2>2. MovePressed(call[d])'
    <3>1. PICK r : r = call[d] /\ r = call'[d]
      BY <1>2
    <3>2. MovePressed(r)
      BY <3>1
    <3>3. MovePressed(r)'
      <4>1. CASE r.op \in Moves /\ r.fresh
        <5>1. /\ r.i \in DOMAIN view.list /\ r.j \in DOMAIN view.list /\ r.j \in {r.i - 1, r.i + 1}
              /\ view.list[r.i] = r.item /\ view.list[r.j] = r.other
              /\ ~r.tied => Get(r.item).order = r.a /\ Get(r.other).order = r.b
              /\ r.op # "move" /\ r.item.of # r.other.of => scopes[r.item.of].val.order = r.b
              /\ r.op = "moved" => scopes[r.other.of].val.order = r.a
          BY <3>2, <4>1 DEF MovePressed
        <5>2. (Get(view.list[r.i]).order)' = Get(r.item).order /\ (Get(view.list[r.j]).order)' = Get(r.other).order
          BY <5>1
        <5>3. (Get(r.item).order)' = Get(r.item).order /\ (Get(r.other).order)' = Get(r.other).order
          BY <5>1, <5>2 DEF Get
        <5> QED
          BY <5>1, <5>3 DEF MovePressed
      <4> QED
        BY <4>1 DEF MovePressed
    <3> QED
      BY <3>1, <3>3
  <2> QED
    BY <2>1, <2>2
<1>3. CASE StaleOf(call'[d], call[d])
  BY <1>3 DEF StaleOf, EditPressed, MovePressed
<1> QED
  BY <1>2, <1>3 DEF Aside

LEMMA PartsKept ==
  ASSUME ExamInv, NEW c \in Call, UNCHANGED <<site, scopes>>, Aside(c), view'.list = view.list,
         slipped => slipped',
         site = "home" => \A i \in DOMAIN view.list : (Get(view.list[i]).order)' = Get(view.list[i]).order,
         CallKnown(call[c])', CallRead(call[c])',
         site = "home" /\ ~slipped' => EditPressed(call[c])' /\ MovePressed(call[c])'
  PROVE  ExamKnown' /\ ExamReads' /\ ExamPresses'
<1>1. ExamTypeOK /\ ExamKnown /\ ExamReads /\ ExamPresses
  BY DEF ExamInv
<1>2. \A d \in Call \ {c} : CallKnown(call[d])' /\ CallRead(call[d])'
  BY <1>1, AsideKept
<1>3. \A d \in Call : CallKnown(call[d])' /\ CallRead(call[d])'
  BY <1>2
<1>4. \A i \in DOMAIN view'.list : IsRow(view.list[i].of)'
  BY <1>1 DEF ExamKnown, IsRow
<1>5. ASSUME site' = "home", ~slipped' PROVE \A d \in Call : EditPressed(call[d])' /\ MovePressed(call[d])'
  <2>1. \A d \in Call : EditPressed(call[d]) /\ MovePressed(call[d])
    BY <1>1, <1>5 DEF ExamPresses
  <2>2. \A d \in Call \ {c} : EditPressed(call[d])' /\ MovePressed(call[d])'
    BY <1>1, <1>5, <2>1, AsidePressed
  <2> QED
    BY <1>5, <2>2
<1> QED
  BY <1>3, <1>4, <1>5 DEF ExamKnown, ExamReads, ExamPresses

\* One request goes on; the rows and the page stay.
LEMMA Quiet ==
  ASSUME ExamInv, ExamTypeOK', NEW c \in Call, UNCHANGED <<site, scopes, objects, view, slipped>>, Aside(c),
         CallKnown(call[c])', CallRead(call[c])',
         site = "home" /\ ~slipped => EditPressed(call[c])' /\ MovePressed(call[c])',
         Due(call[c]) => Due(call[c])', \A o, f : Brings(call[c], o, f) => Brings(call[c], o, f)',
         call[c].op \in {"load", "loaded"} => call'[c].op \in {"load", "loaded"}
  PROVE  ExamInv'
<1>1. ExamTypeOK /\ ExamLoads /\ ExamShows
  BY DEF ExamInv
<1>2. ExamKnown' /\ ExamReads' /\ ExamPresses'
  <2>1. view'.list = view.list
    OBVIOUS
  <2>2. \A i \in DOMAIN view.list : (Get(view.list[i]).order)' = Get(view.list[i]).order
    BY DEF Get
  <2> QED
    BY <2>1, <2>2, PartsKept
<1>3. \A d \in Call : /\ call[d].op \in {"load", "loaded"} => call'[d].op \in {"load", "loaded"}
                      /\ Due(call[d]) => Due(call[d])'
                      /\ \A o, f : Brings(call[d], o, f) => Brings(call[d], o, f)'
  <2>1. \A d \in Call \ {c} : /\ call'[d].op = call[d].op
                              /\ Due(call[d]) => Due(call[d])'
                              /\ \A o, f : Brings(call[d], o, f) => Brings(call[d], o, f)'
    BY <1>1, AsideHas
  <2> QED
    BY <2>1
<1>4. ExamLoads'
  BY <1>1, <1>3 DEF ExamLoads
<1>5. ExamShows'
  <2>1. ASSUME SameValues PROVE SameValues'
    <3>1. \A o, f : Coming(o, f) => Coming(o, f)'
      BY <1>3 DEF Coming
    <3> QED
      BY <2>1, <3>1 DEF SameValues, Get
  <2>2. ASSUME SameSubjects PROVE SameSubjects'
    BY <2>2 DEF SameSubjects, Of
  <2>3. ASSUME InOrder PROVE InOrder'
    BY <2>3 DEF InOrder, Get, Precedes
  <2>4. (\E d \in Call : Due(call[d])) => (\E d \in Call : Due(call[d]))'
    BY <1>3
  <2> QED
    BY <1>1, <2>1, <2>2, <2>3, <2>4 DEF ExamShows
<1> QED
  BY <1>2, <1>4, <1>5 DEF ExamInv

LEMMA GoesOn ==
  ASSUME ExamTypeOK, NEW c \in Call, NEW next, call' = [call EXCEPT ![c] = next]
  PROVE  Aside(c) /\ call'[c] = next
  BY ExamTypes DEF Aside

LEMMA FailedQuiet ==
  ASSUME ExamInv, ExamTypeOK', NEW c \in Call, Step(c, [op |-> "failed"]), call[c].op \notin {"load", "loaded", "edited", "half", "moved"}
  PROVE  ExamInv'
<1>1. PICK q : q = [op |-> "failed"]
  OBVIOUS
<1>2. Aside(c) /\ call'[c] = q /\ q.op = "failed" /\ UNCHANGED <<site, scopes, objects, view, slipped>>
  BY <1>1, GoesOn DEF Step, ExamInv
<1>3. CallKnown(call[c])' /\ CallRead(call[c])' /\ EditPressed(call[c])' /\ MovePressed(call[c])'
  BY <1>2 DEF CallKnown, CallRead, EditPressed, MovePressed, Edits, Moves
<1>4. Due(call[c])' /\ \A o, f : ~Brings(call[c], o, f)
  BY <1>2 DEF Due, Brings
<1> QED
  BY <1>2, <1>3, <1>4, Quiet

LEMMA ReadInv == ASSUME ExamInv, ExamTypeOK', NEW c \in Call, ReadExam(c) PROVE ExamInv'
<1>0. ExamTypeOK
  BY DEF ExamInv
<1>1. PICK rows : /\ IsStored(rows, call[c].exam)
                  /\ Step(c, [op |-> "loaded", exam |-> call[c].exam, fresh |-> call[c].fresh, rows |-> rows])
  BY Zenon DEF ReadExam
<1>2. PICK q : q = [op |-> "loaded", exam |-> call[c].exam, fresh |-> call[c].fresh, rows |-> rows]
  OBVIOUS
<1>3. q.op = "loaded" /\ q.exam = call[c].exam /\ q.rows = rows
  BY <1>2
<1>4. Aside(c) /\ call'[c] = q /\ UNCHANGED <<site, scopes, objects, view, slipped>>
  BY <1>0, <1>1, <1>2, GoesOn DEF Step
<1>5. call[c].op = "load" /\ call[c].exam \in Exam
  BY <1>0, CallKinds, ExamTypes DEF ReadExam, LoadCall
<1>6. CallRead(q)'
  BY <1>1, <1>3, <1>4 DEF CallRead, IsStored, Of, Precedes
<1>7. CallKnown(q)'
  <2>1. \A i \in DOMAIN rows : rows[i][1] \in Of(call[c].exam)
    BY <1>1 DEF IsStored
  <2> QED
    BY <1>3, <1>4, <1>5, <2>1 DEF CallKnown, Of, IsRow, Exam, Edits, Moves
<1>8. EditPressed(call[c])' /\ MovePressed(call[c])' /\ Due(call[c])' /\ \A o, f : ~Brings(call[c], o, f)
  BY <1>3, <1>4, <1>5 DEF EditPressed, MovePressed, Due, Brings, Edits, Moves
<1> QED
  BY <1>3, <1>4, <1>6, <1>7, <1>8, Quiet

LEMMA ServeLastInv == ASSUME ExamInv, ExamTypeOK', NEW c \in Call, ServeLast(c) PROVE ExamInv'
<1>0. ExamTypeOK /\ call[c].op = "add"
  BY Zenon DEF ExamInv, ServeLast
<1>1. CASE Step(c, [op |-> "failed"])
  BY <1>0, <1>1, FailedQuiet
<1>2. ASSUME NEW n, Step(c, [call[c] EXCEPT !.op = "place", !.order = n + 1]) PROVE ExamInv'
  <2>1. PICK q : q = [call[c] EXCEPT !.op = "place", !.order = n + 1]
    OBVIOUS
  <2>2. call[c] \in AddCall
    BY <1>0, CallKinds, ExamTypes
  <2>3. q.op = "place"
    BY <2>1, <2>2 DEF AddCall
  <2>4. Aside(c) /\ call'[c] = q /\ UNCHANGED <<site, scopes, objects, view, slipped>>
    BY <1>0, <1>2, <2>1, GoesOn DEF Step
  <2>5. /\ CallKnown(call[c])' /\ CallRead(call[c])' /\ EditPressed(call[c])' /\ MovePressed(call[c])'
        /\ ~Due(call[c]) /\ \A o, f : ~Brings(call[c], o, f)
    BY <1>0, <2>3, <2>4 DEF CallKnown, CallRead, EditPressed, MovePressed, Edits, Moves, Due, Brings
  <2> QED
    BY <1>0, <2>4, <2>5, Quiet
<1> QED
  BY <1>1, <1>2, Zenon DEF ServeLast

LEMMA PressQuiet ==
  ASSUME ExamInv, ExamTypeOK', NEW c \in Call, NEW next, PressFor(c, next), next.op \in {"edit", "move", "add"},
         CallKnown(next)', site = "home" => EditPressed(next)' /\ MovePressed(next)'
  PROVE  ExamInv'
<1>1. Aside(c) /\ call'[c] = next /\ UNCHANGED <<site, scopes, objects, view, slipped>>
  BY GoesOn DEF PressFor, ExamInv
<1>2. call[c].op = "none"
  BY DEF PressFor, NoCall
<1>3. CallRead(call[c])' /\ ~Due(call[c]) /\ \A o, f : ~Brings(call[c], o, f)
  BY <1>1, <1>2 DEF CallRead, Due, Brings
<1> QED
  BY <1>1, <1>2, <1>3, Quiet

LEMMA PressEditInv == ASSUME ExamInv, ExamTypeOK', NEW c \in Call, PressEdit(c) PROVE ExamInv'
<1>a1. PICK i \in 1..Len(view.list), f \in {"name", "text"}, v \in Value : \E x, o :
        /\ x = view.exam /\ o = view.list[i]
        /\ PressFor(c, [op |-> "edit", exam |-> x, fresh |-> TRUE, item |-> o, to |-> v, field |-> f])
  BY Zenon DEF PressEdit
<1>1. PICK x, o :
        /\ x = view.exam /\ o = view.list[i]
        /\ PressFor(c, [op |-> "edit", exam |-> x, fresh |-> TRUE, item |-> o, to |-> v, field |-> f])
  BY <1>a1, Zenon
<1>2. PICK q : q = [op |-> "edit", exam |-> x, fresh |-> TRUE, item |-> o, to |-> v, field |-> f]
  OBVIOUS
<1>7. q.op = "edit" /\ q.item = o /\ PressFor(c, q)
  BY <1>1, <1>2
<1>3. i \in DOMAIN view.list
  BY ExamTypes DEF ExamInv
<1>4. IsRow(o.of) /\ UNCHANGED <<scopes, view>>
  BY <1>1, <1>3 DEF ExamInv, ExamKnown, PressFor
<1>5. CallKnown(q)'
  BY <1>4, <1>7 DEF CallKnown, IsRow, Moves
<1>6. EditPressed(q)' /\ MovePressed(q)'
  BY <1>1, <1>3, <1>4, <1>7 DEF EditPressed, MovePressed, Moves
<1> QED
  BY <1>5, <1>6, <1>7, PressQuiet

LEMMA PressMoveInv == ASSUME ExamInv, ExamTypeOK', NEW c \in Call, PressMove(c) PROVE ExamInv'
<1>1. PICK i \in 1..Len(view.list), j \in 1..Len(view.list) :
        /\ j \in {i - 1, i + 1}
        /\ PressFor(c, [op |-> "move", exam |-> view.exam, fresh |-> TRUE, item |-> view.list[i],
                        other |-> view.list[j], i |-> i, j |-> j,
                        a |-> Swapped(view.list, i, j)[1], b |-> Swapped(view.list, i, j)[2],
                        tied |-> Get(view.list[i]).order = Get(view.list[j]).order])
  BY Zenon DEF PressMove
<1>8. PICK x, o, p, a, b, t : /\ x = view.exam /\ o = view.list[i] /\ p = view.list[j]
                              /\ a = Swapped(view.list, i, j)[1] /\ b = Swapped(view.list, i, j)[2]
                              /\ t = (Get(view.list[i]).order = Get(view.list[j]).order)
  BY Zenon
<1>0. PICK q : q = [op |-> "move", exam |-> x, fresh |-> TRUE, item |-> o, other |-> p, i |-> i, j |-> j,
                    a |-> a, b |-> b, tied |-> t]
  OBVIOUS
<1>2. /\ q.op = "move" /\ q.item = o /\ q.other = p /\ q.i = i /\ q.j = j /\ q.a = a /\ q.b = b /\ q.tied = t
      /\ PressFor(c, q)
  BY <1>0, <1>1, <1>8
<1>3. i \in DOMAIN view.list /\ j \in DOMAIN view.list
  BY ExamTypes DEF ExamInv
<1>4. IsRow(o.of) /\ IsRow(p.of) /\ UNCHANGED <<scopes, view, objects>>
  BY <1>1, <1>3, <1>8 DEF ExamInv, ExamKnown, PressFor
<1>5. CallKnown(q)'
  BY <1>2, <1>4 DEF CallKnown, IsRow, Edits
<1>6. ~t => Get(o).order = a /\ Get(p).order = b
  BY <1>8 DEF Swapped
<1>7. EditPressed(q)' /\ MovePressed(q)'
  <2>1. EditPressed(q)'
    BY <1>2 DEF EditPressed, Edits
  <2>2. ~q.tied => Get(q.item).order = q.a /\ Get(q.other).order = q.b
    BY <1>2, <1>6
  <2>3. MovePressed(q)'
    <3>1. UNCHANGED <<objects, view>> /\ q.i \in DOMAIN view.list /\ q.j \in DOMAIN view.list
          /\ q.j \in {q.i - 1, q.i + 1} /\ view.list[q.i] = q.item /\ view.list[q.j] = q.other
      BY <1>1, <1>2, <1>3, <1>4, <1>8
    <3>2. (~q.tied => Get(q.item).order = q.a /\ Get(q.other).order = q.b)'
      BY <2>2, <3>1 DEF Get
    <3> QED
      BY <1>2, <3>1, <3>2 DEF MovePressed
  <2> QED
    BY <2>1, <2>3
<1> QED
  BY <1>1, <1>2, <1>5, <1>7, PressQuiet

LEMMA PressAddInv == ASSUME ExamInv, ExamTypeOK', NEW c \in Call, PressAdd(c) PROVE ExamInv'
<1>1. PICK q, n, x : PressFor(c, q) /\ q = [op |-> "add", exam |-> x, name |-> n, order |-> 0]
  BY Zenon DEF PressAdd
<1>2. q.op = "add"
  BY <1>1
<1>3. CallKnown(q)' /\ EditPressed(q)' /\ MovePressed(q)'
  BY <1>2 DEF CallKnown, EditPressed, MovePressed, Edits, Moves
<1> QED
  BY <1>1, <1>2, <1>3, PressQuiet

LEMMA OvertakingAside ==
  ASSUME ExamTypeOK, NEW c \in Call, NEW next \in Calls, NEW ops \in SUBSET Marked, call' = Overtaking(c, next, ops)
  PROVE  /\ Aside(c) /\ call'[c] = next
         /\ \A d \in Call \ {c} : call[d].op \in ops => StaleOf(call'[d], call[d])
<1>1. /\ call'[c] = next
      /\ \A d \in Call : d # c => IF call[d].op \in ops THEN StaleOf(call'[d], call[d]) ELSE call'[d] = call[d]
  BY OvertakingHas, ExamTypes
<1> QED
  BY <1>1 DEF Aside

\* The objects of the list are never collected.
LEMMA ListKept ==
  ASSUME ExamTypeOK, NEW heap \in [1..MaxCopy -> [Subject -> Value]], NEW list \in Seq(Object), NEW calls,
         objects' = Collected(heap, list, calls)
  PROVE  \A i \in DOMAIN list : objects'[list[i].copy] = heap[list[i].copy]
<1> SUFFICES ASSUME NEW i \in DOMAIN list PROVE objects'[list[i].copy] = heap[list[i].copy]
  OBVIOUS
<1>0. PICK o \in Object : o = list[i]
  OBVIOUS
<1>1. PICK k \in 1..MaxCopy : k = list[i].copy
  BY <1>0 DEF Object
<1>2. k \in Held(list, calls)
  BY <1>1, Zenon DEF Held
<1>3. objects'[k] = heap[k]
  BY <1>2 DEF Collected
<1> QED
  BY <1>1, <1>3

LEMMA LoadInv ==
  ASSUME ExamInv, ExamTypeOK', NEW c \in Call, NEW x \in Exam, NEW v, v \in {view} \cup {[view EXCEPT !.exam = y] : y \in Exam},
         LoadExam(c, x, v)
  PROVE  ExamInv'
<1>0. ExamTypeOK
  BY DEF ExamInv
<1>1. PICK q : q = [op |-> "load", exam |-> x, fresh |-> TRUE]
  OBVIOUS
<1>2. q.op = "load" /\ q \in Calls /\ {"load", "loaded"} \in SUBSET Marked
  BY <1>1 DEF Calls, LoadCall, Marked
<1>3. Aside(c) /\ call'[c] = q
  <2>1. call' = Overtaking(c, q, {"load", "loaded"})
    BY <1>1 DEF LoadExam, LoadFor
  <2> QED
    BY <1>0, <1>2, <2>1, OvertakingAside
<1>4. view'.list = view.list /\ UNCHANGED <<site, scopes, slipped>>
  BY <1>0 DEF LoadExam, ExamTypeOK
<1>5. \A i \in DOMAIN view.list : Get(view.list[i])' = Get(view.list[i])
  <2>1. PICK l, cs : l = view.list /\ cs = call'
    OBVIOUS
  <2>2. objects' = Collected(objects, l, cs)
    BY <2>1 DEF LoadExam
  <2>3. \A i \in DOMAIN l : objects'[l[i].copy] = objects[l[i].copy]
    BY <1>0, <2>1, <2>2, ExamTypes, ListKept
  <2> QED
    BY <1>4, <2>1, <2>3 DEF Get
<1>6. CallKnown(q)' /\ CallRead(q)' /\ EditPressed(q)' /\ MovePressed(q)' /\ Due(q)'
  BY <1>2 DEF CallKnown, CallRead, EditPressed, MovePressed, Edits, Moves, Due
<1>7. ExamKnown' /\ ExamReads' /\ ExamPresses'
  BY <1>3, <1>4, <1>5, <1>6, PartsKept
<1>8. ExamLoads' /\ ExamShows'
  BY <1>2, <1>3, <1>6 DEF ExamLoads, ExamShows
<1> QED
  BY <1>7, <1>8 DEF ExamInv

LEMMA SelectInv == ASSUME ExamInv, ExamTypeOK', NEW c \in Call, SelectExam(c) PROVE ExamInv'
  BY LoadInv DEF SelectExam

LEMMA FinishAddInv == ASSUME ExamInv, ExamTypeOK', NEW c \in Call, FinishAdd(c) PROVE ExamInv'
<1>1. PICK x : LoadExam(c, x, view) /\ x = (IF site = "home" THEN view.exam ELSE call[c].exam)
  BY DEF FinishAdd
<1>2. call[c] \in AddCall
  BY CallKinds, ExamTypes DEF FinishAdd, ExamInv
<1>3. x \in Exam
  BY <1>1, <1>2, ExamTypes DEF AddCall, ExamInv
<1> QED
  BY <1>1, <1>3, LoadInv

LEMMA AlertInv == ASSUME ExamInv, ExamTypeOK', NEW c \in Call, Alert(c) PROVE ExamInv'
<1>0. ExamTypeOK
  BY DEF ExamInv
<1>1. /\ call[c].op = "failed" /\ call' = [call EXCEPT ![c] = NoCall] /\ slipped'
      /\ UNCHANGED <<site, scopes, objects, view>>
  BY DEF Alert
<1>2. Aside(c) /\ call'[c] = NoCall
  BY <1>0, <1>1, GoesOn
<1>3. CallKnown(call[c])' /\ CallRead(call[c])'
  BY <1>2 DEF CallKnown, CallRead, NoCall, Edits, Moves
<1>4. ExamKnown' /\ ExamReads' /\ ExamPresses'
  <2>1. view'.list = view.list
    BY <1>1
  <2>2. \A i \in DOMAIN view.list : (Get(view.list[i]).order)' = Get(view.list[i]).order
    BY <1>1 DEF Get
  <2> QED
    BY <1>1, <1>2, <1>3, <2>1, <2>2, PartsKept
<1>5. ExamLoads'
  <2>1. \A d \in Call : call[d].op \in {"load", "loaded"} => call'[d].op \in {"load", "loaded"}
    BY <1>0, <1>1, <1>2, AsideHas
  <2> QED
    BY <1>1, <2>1 DEF ExamLoads, ExamInv
<1> QED
  BY <1>1, <1>4, <1>5 DEF ExamInv, ExamShows

LEMMA LoadFailsInv == ASSUME ExamInv, ExamTypeOK', NEW c \in Call, LoadFails(c) PROVE ExamInv'
<1>0. ExamTypeOK
  BY DEF ExamInv
<1>1. /\ view' = IF site = "home" THEN [view EXCEPT !.shown = "error"]
                 ELSE [view EXCEPT !.shown = "error", !.known = FALSE, !.list = <<>>]
      /\ call' = [call EXCEPT ![c] = NoCall] /\ slipped' /\ UNCHANGED <<site, scopes>>
  BY DEF LoadFails
<1>2. Aside(c) /\ call'[c] = NoCall
  BY <1>0, <1>1, GoesOn
<1>3. CallKnown(call[c])' /\ CallRead(call[c])'
  BY <1>2 DEF CallKnown, CallRead, NoCall, Edits, Moves
<1>4. \A d \in Call : CallKnown(call[d])' /\ CallRead(call[d])'
  BY <1>0, <1>1, <1>2, <1>3, AsideKept DEF ExamInv
<1>5. \A i \in DOMAIN view'.list : IsRow(view.list[i].of)'
  <2>1. CASE site = "home"
    <3>1. view'.list = view.list
      BY <1>0, <1>1, <2>1 DEF ExamTypeOK
    <3> QED
      BY <1>1, <3>1 DEF ExamInv, ExamKnown, IsRow
  <2>2. CASE site # "home"
    <3>1. view'.list = <<>>
      BY <1>0, <1>1, <2>2 DEF ExamTypeOK
    <3> QED
      BY <3>1
  <2> QED
    BY <2>1, <2>2
<1>6. view'.shown = "error"
  BY <1>0, <1>1 DEF ExamTypeOK
<1> QED
  BY <1>1, <1>4, <1>5, <1>6 DEF ExamInv, ExamKnown, ExamReads, ExamPresses, ExamLoads, ExamShows

\* What list() answers: no subject twice, and the numbers do not fall.
LEMMA StoredHas ==
  ASSUME ExamTypeOK, NEW rows \in Seq(Subject \X Value), NEW x, IsStored(rows, x)
  PROVE  /\ \A i, j \in DOMAIN rows : i # j => rows[i][1] # rows[j][1]
         /\ \A i, j \in DOMAIN rows : i < j => rows[i][2].order <= rows[j][2].order
         /\ \A i \in DOMAIN rows : ValuesOf(rows)[rows[i][1]] = rows[i][2]
<1>1. \A i \in DOMAIN rows : rows[i][1] \in Subject /\ rows[i][2] \in Value /\ rows[i][2] = scopes[rows[i][1]].val
  BY DEF IsStored
<1>2. \A i \in DOMAIN rows : i \in Nat /\ rows[i][2].order \in Nat /\ rows[i][2].name \in Nat
  BY <1>1 DEF Value
<1>3. ASSUME NEW i \in DOMAIN rows, NEW j \in DOMAIN rows, i < j
      PROVE  rows[i][1] # rows[j][1] /\ rows[i][2].order <= rows[j][2].order
  <2>1. Precedes(rows[i][1], rows[j][1])
    BY <1>3 DEF IsStored
  <2>2. PICK v \in Value, w \in Value : v = rows[i][2] /\ w = rows[j][2]
    BY <1>1
  <2>3. v.order < w.order \/ (v.order = w.order /\ v.name < w.name)
    BY <1>1, <2>1, <2>2 DEF Precedes
  <2>4. v.order \in Nat /\ w.order \in Nat /\ v.name \in Nat /\ w.name \in Nat
    BY ExamScopesAssumption DEF Value
  <2>5. v # w
    BY <2>3, <2>4
  <2>6. v.order <= w.order
    BY <2>3, <2>4
  <2>7. rows[i][1] # rows[j][1]
    <3>1. PICK s, q : s = rows[i][1] /\ q = rows[j][1]
      OBVIOUS
    <3>2. scopes[s].val = v /\ scopes[q].val = w
      BY <1>1, <2>2, <3>1
    <3>3. s # q
      BY <2>5, <3>2
    <3> QED
      BY <3>1, <3>3
  <2> QED
    BY <2>2, <2>6, <2>7
<1>4. \A i, j \in DOMAIN rows : i # j => rows[i][1] # rows[j][1]
  <2> SUFFICES ASSUME NEW i \in DOMAIN rows, NEW j \in DOMAIN rows, i # j PROVE rows[i][1] # rows[j][1]
    OBVIOUS
  <2>1. i < j \/ j < i
    BY <1>2
  <2> QED
    BY <1>3, <2>1
<1>5. ASSUME NEW i \in DOMAIN rows PROVE ValuesOf(rows)[rows[i][1]] = rows[i][2]
  <2>1. PICK s : s = rows[i][1]
    OBVIOUS
  <2>2. PICK l : l = CHOOSE n \in 1..Len(rows) : rows[n][1] = s
    OBVIOUS
  <2>3. DOMAIN rows = 1..Len(rows)
    OBVIOUS
  <2>4. l \in 1..Len(rows) /\ rows[l][1] = s
    BY <2>1, <2>2, <2>3
  <2>5. l = i
    BY <1>4, <2>1, <2>3, <2>4
  <2>6. ValuesOf(rows)[s] = rows[l][2]
    BY <1>1, <2>1, <2>2, <2>3, <2>4 DEF ValuesOf
  <2> QED
    BY <2>1, <2>5, <2>6
<1> QED
  BY <1>3, <1>4, <1>5

LEMMA ShowInv == ASSUME ExamInv, ExamTypeOK', NEW c \in Call, ShowExam(c) PROVE ExamInv'
<1>0. ExamTypeOK
  BY DEF ExamInv
<1>a1. PICK k \in 1..MaxCopy : \E how :
              /\ how = (IF site = "oj" /\ view.shown = "error" THEN view.shown ELSE "list")
              /\ view' = [view EXCEPT !.list = ListOf(call[c].rows, k), !.known = TRUE, !.shown = how]
              /\ call' = Overtaking(c, NoCall, Edits \cup Moves)
              /\ objects' = Collected([objects EXCEPT ![k] = ValuesOf(call[c].rows)], ListOf(call[c].rows, k), call')
  BY Zenon DEF ShowExam
<1>1. PICK how :
              /\ how = (IF site = "oj" /\ view.shown = "error" THEN view.shown ELSE "list")
              /\ view' = [view EXCEPT !.list = ListOf(call[c].rows, k), !.known = TRUE, !.shown = how]
              /\ call' = Overtaking(c, NoCall, Edits \cup Moves)
              /\ objects' = Collected([objects EXCEPT ![k] = ValuesOf(call[c].rows)], ListOf(call[c].rows, k), call')
  BY <1>a1, Zenon
<1>2. /\ slipped' = (IF call[c].fresh THEN call[c].exam # view.exam ELSE TRUE)
      /\ UNCHANGED <<site, scopes>> /\ call[c].op = "loaded"
  BY DEF ShowExam
<1>3. call[c] \in LoadedCall
  BY <1>0, <1>2, CallKinds, ExamTypes
<1>4. PICK rows, list, vals : rows = call[c].rows /\ list = ListOf(rows, k) /\ vals = ValuesOf(rows)
  OBVIOUS
<1>5. rows \in Seq(Subject \X Value)
  BY <1>3, <1>4 DEF LoadedCall
<1>6. /\ list \in Seq(Object) /\ vals \in [Subject -> Value]
      /\ DOMAIN list = DOMAIN rows
      /\ \A i \in DOMAIN rows : list[i].copy = k /\ list[i].of = rows[i][1] /\ rows[i][1] \in Subject
  <2>1. /\ list \in Seq(Object) /\ vals \in [Subject -> Value]
        /\ DOMAIN list = 1..Len(rows) /\ DOMAIN rows = 1..Len(rows)
        /\ \A i \in 1..Len(rows) : list[i] = [copy |-> k, of |-> rows[i][1]] /\ rows[i][1] \in Subject
    BY <1>4, <1>5, ListOfHas, Zenon
  <2> QED
    BY <2>1
<1>7. Aside(c) /\ call'[c] = NoCall /\ \A d \in Call \ {c} : call[d].op \in Edits \cup Moves => StaleOf(call'[d], call[d])
  <2>1. NoCall \in Calls /\ Edits \cup Moves \in SUBSET Marked
    BY DEF Calls, Marked
  <2> QED
    BY <1>0, <1>1, <2>1, OvertakingAside
<1>8. view'.list = list /\ view'.shown = how /\ view'.exam = view.exam
  BY <1>0, <1>1, <1>4 DEF ExamTypeOK
<1>9. ExamKnown' /\ ExamReads'
  <2>1. CallKnown(call[c])' /\ CallRead(call[c])'
    BY <1>7 DEF CallKnown, CallRead, NoCall, Edits, Moves
  <2>2. \A d \in Call : CallKnown(call[d])' /\ CallRead(call[d])'
    BY <1>0, <1>2, <1>7, <2>1, AsideKept DEF ExamInv
  <2>3. \A i \in DOMAIN rows : IsRow(rows[i][1])
    BY <1>2, <1>4 DEF ExamInv, ExamKnown, CallKnown
  <2>4. \A i \in DOMAIN view'.list : IsRow(view.list[i].of)'
    BY <1>2, <1>6, <1>8, <2>3 DEF IsRow
  <2> QED
    BY <2>2, <2>4 DEF ExamKnown, ExamReads
<1>10. ExamPresses'
  <2>1. \A d \in Call : call'[d].op \in Edits \cup Moves => ~call'[d].fresh
    <3>1. call'[c].op \notin Edits \cup Moves
      BY <1>7 DEF NoCall, Edits, Moves
    <3>2. \A d \in Call \ {c} : call'[d].op = call[d].op
      BY <1>0, <1>2, <1>7, AsideHas
    <3> QED
      BY <1>7, <3>1, <3>2 DEF StaleOf
  <2> QED
    BY <2>1 DEF ExamPresses, EditPressed, MovePressed
<1>11. ExamLoads'
  BY <1>1, <1>8 DEF ExamLoads
<1>12. ASSUME ~slipped' PROVE (SameSubjects /\ SameValues /\ InOrder)'
  <2>1. call[c].fresh /\ call[c].exam = view.exam
    BY <1>2, <1>12
  <2>2. IsStored(rows, view.exam)
    BY <1>2, <1>4, <2>1 DEF ExamInv, ExamReads, CallRead
  <2>3. /\ \A i, j \in DOMAIN rows : i # j => rows[i][1] # rows[j][1]
        /\ \A i, j \in DOMAIN rows : i < j => rows[i][2].order <= rows[j][2].order
        /\ \A i \in DOMAIN rows : vals[rows[i][1]] = rows[i][2]
    BY <1>0, <1>4, <1>5, <2>2, StoredHas
  <2>4. \A i \in DOMAIN rows : Get(view.list[i])' = rows[i][2]
    <3>1. PICK heap, cs : heap = [objects EXCEPT ![k] = vals] /\ cs = call'
      OBVIOUS
    <3>2. heap \in [1..MaxCopy -> [Subject -> Value]] /\ heap[k] = vals
      BY <1>0, <1>6, <3>1, ExamTypes
    <3>3. objects' = Collected(heap, list, cs)
      BY <1>1, <1>4, <3>1
    <3>4. \A i \in DOMAIN list : objects'[list[i].copy] = heap[list[i].copy]
      BY <1>0, <1>6, <3>2, <3>3, ListKept
    <3> QED
      BY <1>6, <1>8, <2>3, <3>2, <3>4 DEF Get
  <2>5. SameSubjects'
    <3>1. {rows[i][1] : i \in DOMAIN rows} = Of(view.exam)
      BY <2>2 DEF IsStored
    <3>2. {view'.list[i].of : i \in DOMAIN view'.list} = {rows[i][1] : i \in DOMAIN rows}
      BY <1>6, <1>8
    <3>3. Of(view.exam)' = Of(view.exam)
      BY <1>2, <1>8 DEF Of
    <3> QED
      BY <1>6, <1>8, <2>3, <3>1, <3>2, <3>3 DEF SameSubjects
  <2>6. SameValues'
    <3>1. \A i \in DOMAIN rows : rows[i][2] = scopes[rows[i][1]].val
      BY <2>2 DEF IsStored
    <3>2. \A i \in DOMAIN rows : Get(view.list[i])' = scopes'[view'.list[i].of].val
      BY <1>2, <1>6, <1>8, <2>4, <3>1
    <3> QED
      BY <1>6, <1>8, <3>2 DEF SameValues
  <2>7. InOrder'
    <3>1. \A i, j \in DOMAIN view'.list : i < j => Get(view.list[i])'.order <= Get(view.list[j])'.order
      BY <1>6, <1>8, <2>3, <2>4
    <3>2. \A i, j \in DOMAIN view'.list : i < j => Precedes(view.list[i].of, view.list[j].of)'
      <4>1. \A i, j \in DOMAIN rows : i < j => Precedes(rows[i][1], rows[j][1])
        BY <2>2 DEF IsStored
      <4> QED
        BY <1>2, <1>6, <1>8, <4>1 DEF Precedes
    <3> QED
      BY <3>1, <3>2 DEF InOrder
  <2> QED
    BY <2>5, <2>6, <2>7
<1>13. ExamShows'
  BY <1>12 DEF ExamShows
<1> QED
  BY <1>9, <1>10, <1>11, <1>13 DEF ExamInv

\* What the answer to a write makes of the requests.
LEMMA AnswerHas ==
  ASSUME ExamTypeOK, NEW c \in Call, NEW rows, NEW next \in Calls, Answer(c, rows, next)
  PROVE  /\ UNCHANGED <<site, view, slipped>> /\ Aside(c)
         /\ \A i \in DOMAIN view.list : Get(view.list[i])' = Get(view.list[i])
         /\ \/ /\ scopes' = rows /\ (call'[c] = next \/ call'[c].op = "failed")
               /\ \A d \in Call \ {c} : call[d].op \in {"loaded", "edited"} => StaleOf(call'[d], call[d])
               /\ call[c].op \in Moves => \A d \in Call \ {c} : call[d].op \in Moves => StaleOf(call'[d], call[d])
            \/ scopes' = scopes /\ call'[c].op = "failed"
<1>1. PICK ops : ops = {"loaded", "edited"} \cup (IF call[c].op \in Moves THEN Moves ELSE {})
  OBVIOUS
<1>2. ops \in SUBSET Marked /\ {"loaded", "edited"} \subseteq ops /\ (call[c].op \in Moves => Moves \subseteq ops)
  BY <1>1 DEF Marked, Edits, Moves
<1>3. PICK f : f = [op |-> "failed"] /\ f.op = "failed" /\ f \in Calls
  <2>1. PICK g : g = [op |-> "failed"]
    OBVIOUS
  <2>2. g.op = "failed" /\ g \in Calls
    BY <2>1 DEF Calls, FailedCall
  <2> QED
    BY <2>1, <2>2
<1>4. \/ scopes' = rows /\ call' = Overtaking(c, next, ops)
      \/ scopes' = rows /\ call' = Overtaking(c, f, ops)
      \/ scopes' = scopes /\ call' = [call EXCEPT ![c] = f]
  BY <1>1, <1>3 DEF Answer, Wrote
<1>5. objects' = Collected(objects, view.list, call') /\ UNCHANGED <<site, view, presses, slipped>>
  BY DEF Answer
<1>6. \A i \in DOMAIN view.list : Get(view.list[i])' = Get(view.list[i])
  <2>1. PICK l, cs : l = view.list /\ cs = call'
    OBVIOUS
  <2>2. \A i \in DOMAIN l : objects'[l[i].copy] = objects[l[i].copy]
    BY <1>5, <2>1, ExamTypes, ListKept
  <2> QED
    BY <1>5, <2>1, <2>2 DEF Get
<1>7. CASE scopes' = rows /\ call' = Overtaking(c, next, ops)
  <2>1. Aside(c) /\ call'[c] = next /\ \A d \in Call \ {c} : call[d].op \in ops => StaleOf(call'[d], call[d])
    BY <1>2, <1>7, OvertakingAside
  <2> QED
    BY <1>2, <1>5, <1>6, <1>7, <2>1
<1>8. CASE scopes' = rows /\ call' = Overtaking(c, f, ops)
  <2>1. Aside(c) /\ call'[c] = f /\ \A d \in Call \ {c} : call[d].op \in ops => StaleOf(call'[d], call[d])
    <3>1. f \in Calls /\ ops \in SUBSET Marked
      BY <1>2, <1>3
    <3> QED
      BY <1>8, <3>1, OvertakingAside
  <2> QED
    BY <1>2, <1>3, <1>5, <1>6, <1>8, <2>1
<1>9. CASE scopes' = scopes /\ call' = [call EXCEPT ![c] = f]
  <2>1. Aside(c) /\ call'[c] = f
    BY <1>9, GoesOn
  <2> QED
    BY <1>3, <1>5, <1>6, <1>9, <2>1
<1> QED
  BY <1>4, <1>7, <1>8, <1>9

\* A request that failed.
LEMMA FailedHas ==
  ASSUME NEW c \in Call, call'[c].op = "failed"
  PROVE  CallKnown(call[c])' /\ CallRead(call[c])' /\ EditPressed(call[c])' /\ MovePressed(call[c])' /\ Due(call[c])'
  BY DEF CallKnown, CallRead, EditPressed, MovePressed, Due, Edits, Moves

\* A request failed, and nothing was written.
LEMMA AnswerFails ==
  ASSUME ExamInv, ExamTypeOK', NEW c \in Call, UNCHANGED <<site, scopes, view, slipped>>, Aside(c),
         \A i \in DOMAIN view.list : Get(view.list[i])' = Get(view.list[i]), call'[c].op = "failed",
         call[c].op \notin {"load", "loaded"}
  PROVE  ExamInv'
<1>1. CallKnown(call[c])' /\ CallRead(call[c])' /\ EditPressed(call[c])' /\ MovePressed(call[c])' /\ Due(call[c])'
  BY FailedHas
<1>2. ExamKnown' /\ ExamReads' /\ ExamPresses'
  <2>1. view'.list = view.list
    OBVIOUS
  <2>2. \A i \in DOMAIN view.list : (Get(view.list[i]).order)' = Get(view.list[i]).order
    OBVIOUS
  <2> QED
    BY <1>1, <2>1, <2>2, PartsKept
<1>3. ExamLoads'
  <2>1. \A d \in Call \ {c} : call'[d].op = call[d].op
    BY AsideHas DEF ExamInv
  <2> QED
    BY <2>1 DEF ExamLoads, ExamInv
<1>4. ExamShows'
  BY <1>1 DEF ExamShows
<1> QED
  BY <1>2, <1>3, <1>4 DEF ExamInv

\* A write that leaves the numbers, or is one of a move's.
LEMMA WriteKept ==
  ASSUME ExamInv, NEW c \in Call, UNCHANGED <<site, view, slipped>>, Aside(c),
         \A i \in DOMAIN view.list : Get(view.list[i])' = Get(view.list[i]),
         \A s \in Subject : IsRow(s) => IsRow(s)',
         \A d \in Call \ {c} : call[d].op \in {"loaded", "edited"} => StaleOf(call'[d], call[d]),
         \/ \A d \in Call \ {c} : call[d].op \in Moves => StaleOf(call'[d], call[d])
         \/ \A s \in Subject : IsRow(s) => scopes'[s].val.order = scopes[s].val.order,
         CallKnown(call[c])', CallRead(call[c])',
         site = "home" /\ ~slipped => EditPressed(call[c])' /\ MovePressed(call[c])',
         call[c].op \notin {"load", "loaded"}
  PROVE  ExamKnown' /\ ExamReads' /\ ExamPresses' /\ ExamLoads'
<1>0. ExamTypeOK
  BY DEF ExamInv
<1>1. \A d \in Call \ {c} : call'[d].op = call[d].op
  BY <1>0, AsideHas
<1>2. ASSUME NEW d \in Call \ {c} PROVE CallKnown(call[d])'
  <2>1. CallKnown(call[d])
    BY DEF ExamInv, ExamKnown
  <2>2. /\ call[d].op \in Edits \cup Moves => call[d].item.of \in Subject
        /\ call[d].op \in Moves => call[d].other.of \in Subject
        /\ call[d].op = "loaded" => \A i \in DOMAIN call[d].rows : call[d].rows[i][1] \in Subject
    BY <1>0, CallKinds, ExamTypes DEF EditCall, MoveCall, LoadedCall, Object
  <2>3. /\ call'[d].op = call[d].op
        /\ call[d].op \in Edits \cup Moves => call'[d].item = call[d].item
        /\ call[d].op \in Moves => call'[d].other = call[d].other
        /\ call[d].op = "loaded" => call'[d].rows = call[d].rows
    BY DEF Aside, StaleOf
  <2> QED
    BY <2>1, <2>2, <2>3 DEF CallKnown
<1>3. ASSUME NEW d \in Call \ {c} PROVE CallRead(call[d])'
  BY <1>1 DEF CallRead, StaleOf
<1>4. ASSUME site = "home", ~slipped, NEW d \in Call \ {c} PROVE EditPressed(call[d])' /\ MovePressed(call[d])'
  <2>1. EditPressed(call[d]) /\ MovePressed(call[d]) /\ CallKnown(call[d])
    BY <1>4 DEF ExamInv, ExamPresses, ExamKnown
  <2>2. CASE StaleOf(call'[d], call[d])
    BY <2>2 DEF StaleOf, EditPressed, MovePressed
  <2>3. CASE call'[d] = call[d] /\ ~StaleOf(call'[d], call[d])
    <3>1. PICK r : r = call[d] /\ r = call'[d]
      BY <2>3
    <3>2. r.op \notin {"loaded", "edited"}
      BY <2>3, <3>1
    <3>3. EditPressed(r)'
      BY <2>1, <3>1, <3>2 DEF EditPressed
    <3>4. ASSUME r.op \in Moves, r.fresh PROVE MovePressed(r)'
      <4>1. /\ r.i \in DOMAIN view.list /\ r.j \in DOMAIN view.list /\ r.j \in {r.i - 1, r.i + 1}
            /\ view.list[r.i] = r.item /\ view.list[r.j] = r.other
            /\ ~r.tied => Get(r.item).order = r.a /\ Get(r.other).order = r.b
            /\ r.op # "move" /\ r.item.of # r.other.of => scopes[r.item.of].val.order = r.b
            /\ r.op = "moved" => scopes[r.other.of].val.order = r.a
        BY <2>1, <3>1, <3>4 DEF MovePressed
      <4>2. \A s \in Subject : IsRow(s) => scopes'[s].val.order = scopes[s].val.order
        BY <2>3, <3>1, <3>4
      <4>3. r.item.of \in Subject /\ r.other.of \in Subject /\ IsRow(r.item.of) /\ IsRow(r.other.of)
        <5>1. r \in MoveCall
          BY <1>0, <3>1, <3>4, CallKinds, ExamTypes
        <5>2. CallKnown(r)
          BY <2>1, <3>1
        <5> QED
          BY <3>4, <5>1, <5>2 DEF MoveCall, Object, CallKnown
      <4>4. Get(r.item)' = Get(r.item) /\ Get(r.other)' = Get(r.other)
        <5>1. Get(view.list[r.i])' = Get(view.list[r.i]) /\ Get(view.list[r.j])' = Get(view.list[r.j])
          BY <4>1
        <5> QED
          BY <4>1, <5>1 DEF Get
      <4> QED
        BY <4>1, <4>2, <4>3, <4>4 DEF MovePressed
    <3>5. MovePressed(r)'
      BY <3>4 DEF MovePressed
    <3> QED
      BY <3>1, <3>3, <3>5
  <2> QED
    BY <2>2, <2>3 DEF Aside
<1>5. ExamKnown'
  <2>1. \A i \in DOMAIN view'.list : IsRow(view.list[i].of)'
    <3>1. \A i \in DOMAIN view.list : IsRow(view.list[i].of) /\ view.list[i].of \in Subject
      BY <1>0, ExamTypes DEF ExamInv, ExamKnown
    <3> QED
      BY <3>1
  <2> QED
    BY <1>2, <2>1 DEF ExamKnown
<1>6. ExamReads' /\ ExamPresses'
  BY <1>3, <1>4 DEF ExamReads, ExamPresses
<1>7. ExamLoads'
  BY <1>1 DEF ExamLoads, ExamInv
<1> QED
  BY <1>5, <1>6, <1>7

\* Only field f of subject s differs from what is stored.
OnlyField(rows, s, f) ==
  /\ \A q \in Subject : rows[q].exam = scopes[q].exam
  /\ \A q \in Subject, g \in {"name", "order", "text"} : (q # s \/ g # f) => rows[q].val[g] = scopes[q].val[g]

\* Field f of subject s is written, and an answer on its way brings it to every object of s listed.
LEMMA WriteShows ==
  ASSUME ExamTypeOK, NEW c \in Call, UNCHANGED <<site, view>>, Aside(c), site = "home",
         \A i \in DOMAIN view.list : Get(view.list[i])' = Get(view.list[i]),
         NEW s \in Subject, NEW f, NEW rows, scopes' = rows, OnlyField(rows, s, f),
         \A o, g : Brings(call[c], o, g) => Brings(call[c], o, g)',
         \A i \in DOMAIN view.list : view.list[i].of = s => Brings(call[c], view.list[i], f)',
         SameSubjects, SameValues, InOrder
  PROVE  SameSubjects' /\ SameValues' /\ InOrder'
<1>1. SameSubjects'
  <2>1. Of(view.exam)' = Of(view.exam)
    BY DEF Of, OnlyField
  <2> QED
    BY <2>1 DEF SameSubjects
<1>2. InOrder'
  BY DEF InOrder
<1>3. SameValues'
  <2> SUFFICES ASSUME NEW i \in DOMAIN view.list, NEW g \in {"name", "order", "text"}
               PROVE  Coming(view.list[i], g)' \/ Get(view.list[i])'[g] = scopes'[view.list[i].of].val[g]
    BY DEF SameValues
  <2>1. PICK o \in Object : o = view.list[i] /\ o.of \in Subject
    BY ExamTypes
  <2>2. Coming(o, g) \/ Get(o)[g] = scopes[o.of].val[g]
    BY <2>1 DEF SameValues
  <2>3. Coming(o, g) => Coming(o, g)'
    <3>1. \A d \in Call : Brings(call[d], o, g) => Brings(call[d], o, g)'
      BY AsideHas
    <3> QED
      BY <3>1 DEF Coming
  <2>4. CASE o.of = s /\ g = f
    <3>1. Brings(call[c], o, g)'
      BY <2>1, <2>4
    <3> QED
      BY <2>1, <3>1 DEF Coming
  <2>5. CASE o.of # s \/ g # f
    <3>1. scopes'[o.of].val[g] = scopes[o.of].val[g]
      BY <2>1, <2>5 DEF OnlyField
    <3>2. Get(view.list[i])' = Get(o)
      BY <2>1
    <3> QED
      BY <2>1, <2>2, <2>3, <3>1, <3>2
  <2> QED
    BY <2>4, <2>5
<1> QED
  BY <1>1, <1>2, <1>3

\* What is due stays due.
LEMMA DueKept ==
  ASSUME ExamTypeOK, NEW c \in Call, UNCHANGED <<site, slipped>>, Aside(c), ExamShows, Due(call[c]) => Due(call[c])',
         ~slipped /\ ~Due(call[c])' /\ SameSubjects /\ SameValues /\ InOrder
           => SameSubjects' /\ SameValues' /\ InOrder'
  PROVE  ExamShows'
<1>1. \A d \in Call : Due(call[d]) => Due(call[d])'
  BY AsideHas
<1> QED
  BY <1>1 DEF ExamShows

WithField(s, f, n) == [scopes EXCEPT ![s].val[f] = n]

LEMMA FieldRows ==
  ASSUME ExamTypeOK, NEW s \in Subject, NEW f \in {"name", "order", "text"}, NEW n,
         NEW rows, rows = WithField(s, f, n)
  PROVE  OnlyField(rows, s, f) /\ rows[s].val[f] = n
<1>1. PICK r \in Stored, v \in Value : r = scopes[s] /\ v = r.val
  BY ExamTypes DEF Stored
<1>2. PICK w : w = [v EXCEPT ![f] = n]
  OBVIOUS
<1>3. w[f] = n /\ \A g \in {"name", "order", "text"} : g # f => w[g] = v[g]
  BY <1>2 DEF Value
<1>4. PICK t : t = [r EXCEPT !.val = w]
  OBVIOUS
<1>5. t.exam = r.exam /\ t.val = w
  BY <1>4 DEF Stored
<1>6. rows = [scopes EXCEPT ![s] = t]
  BY <1>1, <1>2, <1>4 DEF WithField
<1>7. rows[s] = t /\ \A q \in Subject : q # s => rows[q] = scopes[q]
  BY <1>6, ExamTypes
<1> QED
  BY <1>1, <1>3, <1>5, <1>7 DEF OnlyField

LEMMA ServeEditInv == ASSUME ExamInv, ExamTypeOK', NEW c \in Call, ServeEdit(c) PROVE ExamInv'
<1>0. ExamTypeOK
  BY DEF ExamInv
<1>1. PICK m : m = call[c]
  OBVIOUS
<1>2. m \in EditCall /\ m.op = "edit"
  <2>1. m.op = "edit"
    BY <1>1, Zenon DEF ServeEdit
  <2> QED
    BY <1>0, <1>1, <2>1, CallKinds, ExamTypes DEF Edits
<1>3. PICK s, f, w : s = m.item.of /\ f = m.field /\ w = m.to
  OBVIOUS
<1>4. s \in Subject /\ f \in {"name", "text"} /\ w \in Value
  BY <1>2, <1>3 DEF EditCall, Object
<1>5. \/ Step(c, [op |-> "failed"])
      \/ Answer(c, [scopes EXCEPT ![s].val[f] = w[f]], [m EXCEPT !.op = "edited"])
  BY <1>1, <1>3, Zenon DEF ServeEdit
<1>6. CASE Step(c, [op |-> "failed"])
  BY <1>1, <1>2, <1>6, FailedQuiet
<1>7. CASE Answer(c, [scopes EXCEPT ![s].val[f] = w[f]], [m EXCEPT !.op = "edited"])
  <2>1. PICK rows, q, n : rows = [scopes EXCEPT ![s].val[f] = w[f]] /\ q = [m EXCEPT !.op = "edited"] /\ n = w[f]
    OBVIOUS
  <2>2. q \in EditCall /\ q.op = "edited" /\ q.item = m.item /\ q.field = f /\ q.to = w /\ q.fresh = m.fresh
    BY <1>2, <1>3, <2>1 DEF EditCall
  <2>3. q \in Calls
    BY <2>2 DEF Calls
  <2>4. /\ UNCHANGED <<site, view, slipped>> /\ Aside(c)
        /\ \A i \in DOMAIN view.list : Get(view.list[i])' = Get(view.list[i])
        /\ \/ /\ scopes' = rows /\ (call'[c] = q \/ call'[c].op = "failed")
              /\ \A d \in Call \ {c} : call[d].op \in {"loaded", "edited"} => StaleOf(call'[d], call[d])
           \/ scopes' = scopes /\ call'[c].op = "failed"
    BY <1>0, <1>7, <2>1, <2>3, AnswerHas
  <2>5. CASE scopes' = scopes /\ call'[c].op = "failed"
    BY <1>1, <1>2, <2>4, <2>5, AnswerFails
  <2>6. CASE /\ scopes' = rows /\ (call'[c] = q \/ call'[c].op = "failed")
             /\ \A d \in Call \ {c} : call[d].op \in {"loaded", "edited"} => StaleOf(call'[d], call[d])
    <3>1. OnlyField(rows, s, f) /\ rows[s].val[f] = n
      <4>1. rows = WithField(s, f, n)
        BY <2>1 DEF WithField
      <4>2. f \in {"name", "order", "text"}
        BY <1>4
      <4> QED
        BY <1>0, <1>4, <4>1, <4>2, FieldRows
    <3>2. \A p \in Subject : IsRow(p) => IsRow(p)'
      BY <2>6, <3>1 DEF IsRow, OnlyField
    <3>3. \A p \in Subject : scopes'[p].val.order = scopes[p].val.order
      BY <1>4, <2>6, <3>1 DEF OnlyField
    <3>4. CallKnown(call[c])' /\ CallRead(call[c])'
      <4>1. IsRow(s)
        BY <1>1, <1>2, <1>3 DEF ExamInv, ExamKnown, CallKnown, Edits
      <4>2. CASE call'[c] = q
        BY <1>3, <1>4, <2>2, <3>2, <4>1, <4>2 DEF CallKnown, CallRead, Moves
      <4> QED
        BY <2>6, <4>2, FailedHas
    <3>5. (site = "home" /\ ~slipped /\ m.fresh) => \E i \in DOMAIN view.list : view.list[i] = m.item
      BY <1>1, <1>2 DEF ExamInv, ExamPresses, EditPressed, Edits
    <3>6. site = "home" /\ ~slipped => EditPressed(call[c])' /\ MovePressed(call[c])'
      <4>1. CASE call'[c] = q
        <5>1. MovePressed(q)'
          BY <2>2 DEF MovePressed, Moves
        <5>2. site = "home" /\ ~slipped => EditPressed(q)'
          BY <1>3, <2>1, <2>2, <2>4, <2>6, <3>1, <3>5 DEF EditPressed
        <5> QED
          BY <4>1, <5>1, <5>2
      <4> QED
        BY <2>6, <4>1, FailedHas
    <3>7. ExamKnown' /\ ExamReads' /\ ExamPresses' /\ ExamLoads'
      BY <1>1, <1>2, <2>4, <2>6, <3>2, <3>3, <3>4, <3>6, WriteKept
    <3>8. ~Due(call[c]) /\ \A o, g : ~Brings(call[c], o, g)
      BY <1>1, <1>2 DEF Due, Brings
    <3>9. ASSUME ~slipped, ~Due(call[c])', SameSubjects, SameValues, InOrder
          PROVE  SameSubjects' /\ SameValues' /\ InOrder'
      <4>1. call'[c] = q
        BY <2>6, <3>9, FailedHas
      <4>2. site = "home" /\ m.fresh
        BY <1>0, <2>2, <2>4, <3>9, <4>1, ExamTypes DEF Due
      <4>3. PICK k \in DOMAIN view.list : view.list[k] = m.item
        BY <3>5, <3>9, <4>2
      <4>4. \A i \in DOMAIN view.list : view.list[i].of = s => view.list[i] = m.item
        BY <1>3, <3>9, <4>3 DEF SameSubjects
      <4>5. \A i \in DOMAIN view.list : view.list[i].of = s => Brings(call[c], view.list[i], f)'
        BY <2>2, <2>4, <4>1, <4>4 DEF Brings
      <4> QED
        BY <1>0, <1>4, <2>4, <2>6, <3>1, <3>8, <3>9, <4>2, <4>5, WriteShows
    <3>10. ExamShows'
      BY <1>0, <2>4, <3>8, <3>9, DueKept DEF ExamInv
    <3> QED
      BY <3>7, <3>10 DEF ExamInv
  <2> QED
    BY <2>4, <2>5, <2>6
<1> QED
  BY <1>5, <1>6, <1>7

\* A move writes the number of one of its two subjects.
LEMMA ServeMoveInv == ASSUME ExamInv, ExamTypeOK', NEW c \in Call, ServeMove(c) PROVE ExamInv'
<1>0. ExamTypeOK
  BY DEF ExamInv
<1>1. PICK m : m = call[c]
  OBVIOUS
<1>2. m \in MoveCall /\ m.op \in {"move", "half"}
  <2>1. m.op \in {"move", "half"}
    BY <1>1, Zenon DEF ServeMove
  <2> QED
    BY <1>0, <1>1, <2>1, CallKinds, ExamTypes DEF Moves
<1>3. PICK s, n, now :
        /\ \/ m.op = "move" /\ s = m.item.of /\ n = m.b /\ now = "half"
           \/ m.op = "half" /\ s = m.other.of /\ n = m.a /\ now = "moved"
        /\ Answer(c, [scopes EXCEPT ![s].val.order = n], [m EXCEPT !.op = now])
  <2>1. CASE m.op = "move"
    BY <1>1, <2>1, Zenon DEF ServeMove
  <2>2. CASE m.op # "move"
    <3>1. m.op = "half"
      BY <1>2, <2>2
    <3> QED
      BY <1>1, <2>2, <3>1, Zenon DEF ServeMove
  <2> QED
    BY <2>1, <2>2
<1>4. /\ s \in Subject /\ now \in {"half", "moved"} /\ m.item.of \in Subject /\ m.other.of \in Subject
      /\ m.item \in Object /\ m.other \in Object
  BY <1>2, <1>3 DEF MoveCall, Object
<1>5. PICK rows, q : rows = [scopes EXCEPT ![s].val.order = n] /\ q = [m EXCEPT !.op = now]
  OBVIOUS
<1>6. /\ q \in MoveCall /\ q.op = now /\ q.item = m.item /\ q.other = m.other /\ q.i = m.i /\ q.j = m.j
      /\ q.a = m.a /\ q.b = m.b /\ q.tied = m.tied /\ q.fresh = m.fresh
  BY <1>2, <1>4, <1>5 DEF MoveCall
<1>7. q \in Calls
  BY <1>6 DEF Calls
<1>8. /\ UNCHANGED <<site, view, slipped>> /\ Aside(c)
      /\ \A i \in DOMAIN view.list : Get(view.list[i])' = Get(view.list[i])
      /\ \/ /\ scopes' = rows /\ (call'[c] = q \/ call'[c].op = "failed")
            /\ \A d \in Call \ {c} : call[d].op \in {"loaded", "edited"} => StaleOf(call'[d], call[d])
            /\ \A d \in Call \ {c} : call[d].op \in Moves => StaleOf(call'[d], call[d])
         \/ scopes' = scopes /\ call'[c].op = "failed"
  <2>1. m.op \in Moves
    BY <1>2 DEF Moves
  <2> QED
    BY <1>0, <1>1, <1>3, <1>5, <1>7, <2>1, AnswerHas
<1>9. CASE scopes' = scopes /\ call'[c].op = "failed"
  BY <1>1, <1>2, <1>8, <1>9, AnswerFails
<1>10. CASE /\ scopes' = rows /\ (call'[c] = q \/ call'[c].op = "failed")
            /\ \A d \in Call \ {c} : call[d].op \in {"loaded", "edited"} => StaleOf(call'[d], call[d])
            /\ \A d \in Call \ {c} : call[d].op \in Moves => StaleOf(call'[d], call[d])
  <2>1. PICK f \in {"name", "order", "text"} : f = "order" /\ OnlyField(rows, s, f) /\ rows[s].val.order = n
    <3>1. PICK f \in {"name", "order", "text"} : f = "order"
      OBVIOUS
    <3>2. rows = WithField(s, f, n)
      BY <1>5, <3>1 DEF WithField
    <3>3. OnlyField(rows, s, f) /\ rows[s].val[f] = n
      BY <1>0, <1>4, <3>2, FieldRows
    <3> QED
      BY <3>1, <3>3
  <2>0. \A p \in Subject : p # s => scopes'[p].val.order = scopes[p].val.order
    BY <1>10, <2>1 DEF OnlyField
  <2>2. \A p \in Subject : IsRow(p) => IsRow(p)'
    BY <1>10, <2>1 DEF IsRow, OnlyField
  <2>3. CallKnown(call[c])' /\ CallRead(call[c])'
    <3>1. IsRow(m.item.of) /\ IsRow(m.other.of)
      BY <1>1, <1>2 DEF ExamInv, ExamKnown, CallKnown, Moves
    <3>2. CASE call'[c] = q
      BY <1>4, <1>6, <2>2, <3>1, <3>2 DEF CallKnown, CallRead, Edits
    <3> QED
      BY <1>10, <3>2, FailedHas
  <2>4. ASSUME site = "home", ~slipped, m.fresh
        PROVE  /\ m.i \in DOMAIN view.list /\ m.j \in DOMAIN view.list /\ m.j \in {m.i - 1, m.i + 1}
               /\ view.list[m.i] = m.item /\ view.list[m.j] = m.other
               /\ ~m.tied => Get(m.item).order = m.a /\ Get(m.other).order = m.b
               /\ m.op # "move" /\ m.item.of # m.other.of => scopes[m.item.of].val.order = m.b
    <3>1. MovePressed(m)
      BY <1>1, <2>4 DEF ExamInv, ExamPresses
    <3>2. m.op \in Moves
      BY <1>2 DEF Moves
    <3> QED
      BY <2>4, <3>1, <3>2 DEF MovePressed
  <2>5. ASSUME site = "home", ~slipped PROVE EditPressed(call[c])' /\ MovePressed(call[c])'
    <3>1. CASE call'[c] = q
      <4>1. EditPressed(q)'
        BY <1>4, <1>6 DEF EditPressed, Edits
      <4>2. ASSUME q.fresh PROVE MovePressed(q)'
        <5>1. m.fresh
          BY <1>6, <4>2
        <5>2. Get(m.item)' = Get(m.item) /\ Get(m.other)' = Get(m.other)
          <6>1. Get(view.list[m.i])' = Get(view.list[m.i]) /\ Get(view.list[m.j])' = Get(view.list[m.j])
            BY <1>8, <2>4, <2>5, <5>1
          <6> QED
            <7>1. view.list[m.i] = m.item /\ view.list[m.j] = m.other /\ view' = view
              BY <1>8, <2>4, <2>5, <5>1
            <7> QED
              BY <6>1, <7>1 DEF Get
        <5>3. now # "move" /\ m.item.of # m.other.of => scopes'[m.item.of].val.order = m.b
          <6>1. CASE now = "half"
            BY <1>3, <1>10, <2>1, <6>1
          <6>2. CASE now = "moved"
            BY <1>3, <1>4, <2>0, <2>4, <2>5, <5>1, <6>2
          <6> QED
            BY <1>4, <6>1, <6>2
        <5>4. now = "moved" => scopes'[m.other.of].val.order = m.a
          BY <1>3, <1>10, <2>1
        <5> QED
          BY <1>6, <1>8, <2>4, <2>5, <5>1, <5>2, <5>3, <5>4 DEF MovePressed
      <4>3. MovePressed(q)'
        BY <4>2 DEF MovePressed
      <4> QED
        BY <3>1, <4>1, <4>3
    <3> QED
      BY <1>10, <3>1, FailedHas
  <2>6. ExamKnown' /\ ExamReads' /\ ExamPresses' /\ ExamLoads'
    BY <1>1, <1>2, <1>8, <1>10, <2>2, <2>3, <2>5, WriteKept
  <2>7. Due(call[c]) => Due(call[c])'
    <3>1. CASE call'[c] = q
      BY <1>1, <1>2, <1>3, <1>6, <1>8, <3>1 DEF Due
    <3> QED
      BY <1>10, <3>1, FailedHas
  <2>8. ASSUME ~slipped, ~Due(call[c])', SameSubjects, SameValues, InOrder
        PROVE  SameSubjects' /\ SameValues' /\ InOrder'
    <3>1. call'[c] = q
      BY <1>10, <2>8, FailedHas
    <3>2. site = "home" /\ m.fresh /\ ~m.tied
      BY <1>0, <1>4, <1>6, <1>8, <2>8, <3>1, ExamTypes DEF Due
    <3>3. PICK o : o.of = s /\ (\E k \in DOMAIN view.list : view.list[k] = o) /\ Brings(q, o, "order")
      BY <1>3, <1>6, <2>4, <2>8, <3>2 DEF Brings
    <3>4. \A i \in DOMAIN view.list : view.list[i].of = s => view.list[i] = o
      BY <2>8, <3>3 DEF SameSubjects
    <3>5. \A i \in DOMAIN view.list : view.list[i].of = s => Brings(call[c], view.list[i], "order")'
      BY <1>8, <3>1, <3>3, <3>4 DEF Brings
    <3>6. \A p, g : Brings(call[c], p, g) => Brings(call[c], p, g)'
      BY <1>1, <1>2, <1>3, <1>6, <3>1 DEF Brings
    <3>7. \A i \in DOMAIN view.list : view.list[i].of = s => Brings(call[c], view.list[i], f)'
      BY <2>1, <3>5
    <3> QED
      BY <1>0, <1>4, <1>8, <1>10, <2>1, <2>8, <3>2, <3>6, <3>7, WriteShows
  <2>9. ExamShows'
    BY <1>0, <1>8, <2>7, <2>8, DueKept DEF ExamInv
  <2> QED
    BY <2>6, <2>9 DEF ExamInv
<1> QED
  BY <1>8, <1>9, <1>10

LEMMA ServeAddInv == ASSUME ExamInv, ExamTypeOK', NEW c \in Call, ServeAdd(c) PROVE ExamInv'
<1>0. ExamTypeOK
  BY DEF ExamInv
<1>1. PICK m : m = call[c]
  OBVIOUS
<1>2. m \in AddCall /\ m.op = "place"
  BY <1>0, <1>1, CallKinds, ExamTypes DEF ServeAdd
<1>3. CASE Step(c, [op |-> "failed"])
  BY <1>1, <1>2, <1>3, FailedQuiet
<1>4. ASSUME NEW s, s = (CHOOSE x \in Of("NONE") : TRUE), Of("NONE") # {}, NEW row,
             row = [exam |-> m.exam, val |-> [name |-> m.name, order |-> m.order, text |-> 0]],
             Answer(c, [scopes EXCEPT ![s] = row], [m EXCEPT !.op = "added"])
      PROVE  ExamInv'
  <2>1. s \in Subject /\ scopes[s].exam = "NONE"
    BY <1>4 DEF Of
  <2>2. row.exam # "NONE"
    BY <1>2, <1>4 DEF AddCall, Exam
  <2>3. PICK rows, q : rows = [scopes EXCEPT ![s] = row] /\ q = [m EXCEPT !.op = "added"]
    OBVIOUS
  <2>4. q \in Calls /\ q.op = "added"
    BY <1>2, <2>3 DEF AddCall, Calls
  <2>5. /\ UNCHANGED <<site, view, slipped>> /\ Aside(c)
        /\ \A i \in DOMAIN view.list : Get(view.list[i])' = Get(view.list[i])
        /\ \/ /\ scopes' = rows /\ (call'[c] = q \/ call'[c].op = "failed")
              /\ \A d \in Call \ {c} : call[d].op \in {"loaded", "edited"} => StaleOf(call'[d], call[d])
           \/ scopes' = scopes /\ call'[c].op = "failed"
    BY <1>0, <1>4, <2>3, <2>4, AnswerHas
  <2>6. CASE scopes' = scopes /\ call'[c].op = "failed"
    BY <1>1, <1>2, <2>5, <2>6, AnswerFails
  <2>7. CASE /\ scopes' = rows /\ (call'[c] = q \/ call'[c].op = "failed")
             /\ \A d \in Call \ {c} : call[d].op \in {"loaded", "edited"} => StaleOf(call'[d], call[d])
    <3>1. \A p \in Subject : p # s => scopes'[p] = scopes[p]
      BY <1>0, <2>1, <2>3, <2>7, ExamTypes
    <3>2. \A p \in Subject : IsRow(p) => IsRow(p)' /\ scopes'[p].val.order = scopes[p].val.order
      BY <2>1, <3>1 DEF IsRow
    <3>3. CallKnown(call[c])' /\ CallRead(call[c])' /\ EditPressed(call[c])' /\ MovePressed(call[c])' /\ Due(call[c])'
      <4>1. CASE call'[c] = q
        BY <2>4, <4>1 DEF CallKnown, CallRead, EditPressed, MovePressed, Due, Edits, Moves
      <4> QED
        BY <2>7, <4>1, FailedHas
    <3>4. ExamKnown' /\ ExamReads' /\ ExamPresses' /\ ExamLoads'
      BY <1>1, <1>2, <2>5, <2>7, <3>2, <3>3, WriteKept
    <3> QED
      BY <3>3, <3>4 DEF ExamInv, ExamShows
  <2> QED
    BY <2>5, <2>6, <2>7
<1> QED
  BY <1>1, <1>3, <1>4, Zenon DEF ServeAdd

LEMMA PutHas ==
  ASSUME ExamTypeOK, NEW o \in Object, NEW f \in {"name", "text"}, NEW w \in Value, NEW heap, heap = Put(o, f, w[f])
  PROVE  /\ heap \in [1..MaxCopy -> [Subject -> Value]]
         /\ \A q \in Object, g \in {"name", "order", "text"} :
              heap[q.copy][q.of][g] = IF q = o /\ g = f THEN w[f] ELSE Get(q)[g]
<1>1. PICK k, s : k = o.copy /\ s = o.of
  OBVIOUS
<1>2. k \in 1..MaxCopy /\ s \in Subject /\ o = [copy |-> k, of |-> s]
  BY <1>1 DEF Object
<1>3. PICK v : v = objects[k][s]
  OBVIOUS
<1>4. v \in Value
  BY <1>2, <1>3, ExamTypes
<1>5. PICK u \in Value : u = Having(v, f, w[f])
  BY <1>4, FieldTyped
<1>6. \A g \in {"name", "order", "text"} : u[g] = IF g = f THEN w[f] ELSE v[g]
  BY <1>4, <1>5 DEF Value, Having
<1>7. heap = [objects EXCEPT ![k][s] = u]
  BY <1>1, <1>3, <1>5 DEF Put, Having
<1>8. /\ heap \in [1..MaxCopy -> [Subject -> Value]]
      /\ \A l \in 1..MaxCopy, t \in Subject : heap[l][t] = IF l = k /\ t = s THEN u ELSE objects[l][t]
  <2>1. PICK A, V : A = 1..MaxCopy /\ V = Value
    OBVIOUS
  <2>2. objects \in [A -> [Subject -> V]] /\ k \in A /\ u \in V
    BY <1>2, <1>5, <2>1, ExamTypes
  <2>3. /\ heap \in [A -> [Subject -> V]]
        /\ \A l \in A, t \in Subject : heap[l][t] = IF l = k /\ t = s THEN u ELSE objects[l][t]
    BY <1>2, <1>7, <2>2
  <2> QED
    BY <2>1, <2>3
<1>9. ASSUME NEW q \in Object, NEW g \in {"name", "order", "text"}
      PROVE  heap[q.copy][q.of][g] = IF q = o /\ g = f THEN w[f] ELSE Get(q)[g]
  <2>1. PICK l, t : l = q.copy /\ t = q.of
    OBVIOUS
  <2>2. l \in 1..MaxCopy /\ t \in Subject /\ q = [copy |-> l, of |-> t]
    BY <2>1 DEF Object
  <2>3. q = o <=> l = k /\ t = s
    BY <1>2, <2>2
  <2>4. heap[l][t] = (IF l = k /\ t = s THEN u ELSE objects[l][t]) /\ Get(q) = objects[l][t]
    BY <1>8, <2>1, <2>2 DEF Get
  <2> QED
    BY <1>3, <1>6, <2>1, <2>3, <2>4
<1> QED
  BY <1>8, <1>9

LEMMA FinishEditInv == ASSUME ExamInv, ExamTypeOK', NEW c \in Call, FinishEdit(c) PROVE ExamInv'
<1>0. ExamTypeOK
  BY DEF ExamInv
<1>1. PICK m : m = call[c]
  OBVIOUS
<1>2. m \in EditCall /\ m.op = "edited"
  <2>1. m.op = "edited"
    BY <1>1, Zenon DEF FinishEdit
  <2> QED
    BY <1>0, <1>1, <2>1, CallKinds, ExamTypes DEF Edits
<1>3. CASE site = "oj"
  <2>1. LoadExam(c, m.exam, view)
    BY <1>1, <1>3, Zenon DEF FinishEdit
  <2>2. m.exam \in Exam
    BY <1>2 DEF EditCall
  <2> QED
    BY <2>1, <2>2, LoadInv
<1>4. CASE site # "oj"
  <2>1. PICK heap, l, cs : /\ heap = Put(m.item, m.field, m.to[m.field]) /\ l = view.list /\ cs = call'
                           /\ objects' = Collected(heap, l, cs)
                           /\ view' = [view EXCEPT !.shown = "list"]
                           /\ call' = [call EXCEPT ![c] = NoCall]
                           /\ slipped' = (slipped \/ ~m.fresh)
                           /\ UNCHANGED <<site, scopes, presses>>
    BY <1>1, <1>4, Zenon DEF FinishEdit
  <2>2. PICK o \in Object, f \in {"name", "text"}, w \in Value : o = m.item /\ f = m.field /\ w = m.to
    BY <1>2 DEF EditCall
  <2>3. /\ heap \in [1..MaxCopy -> [Subject -> Value]]
        /\ \A q \in Object, g \in {"name", "order", "text"} :
             heap[q.copy][q.of][g] = IF q = o /\ g = f THEN w[f] ELSE Get(q)[g]
    <3>1. heap = Put(o, f, w[f])
      BY <2>1, <2>2
    <3> QED
      BY <1>0, <3>1, PutHas
  <2>4. Aside(c) /\ call'[c] = NoCall
    BY <1>0, <2>1, GoesOn
  <2>5. view'.list = view.list /\ view'.exam = view.exam /\ view'.shown = "list"
    BY <1>0, <2>1 DEF ExamTypeOK
  <2>6. ASSUME NEW i \in DOMAIN view.list, NEW g \in {"name", "order", "text"}
        PROVE  Get(view.list[i])'[g] = IF view.list[i] = o /\ g = f THEN w[f] ELSE Get(view.list[i])[g]
    <3>1. \A k \in DOMAIN l : objects'[l[k].copy] = heap[l[k].copy]
      <4>1. l \in Seq(Object) /\ objects' = Collected(heap, l, cs) /\ heap \in [1..MaxCopy -> [Subject -> Value]]
        <5>1. view.list \in Seq(Object)
          BY <1>0, ExamTypes
        <5> QED
          BY <2>1, <2>3, <5>1, Zenon
      <4> QED
        BY <1>0, <4>1, ListKept, Zenon
    <3>2. PICK p \in Object : p = view.list[i]
      BY <1>0, ExamTypes
    <3>3. Get(view.list[i])' = heap[p.copy][p.of]
      BY <2>1, <2>5, <3>1, <3>2 DEF Get
    <3> QED
      BY <2>3, <3>2, <3>3
  <2>7. \A i \in DOMAIN view.list : (Get(view.list[i]).order)' = Get(view.list[i]).order
    <3>1. \A i \in DOMAIN view.list : Get(view.list[i])'["order"] = Get(view.list[i])["order"]
      BY <2>6
    <3> QED
      BY <3>1
  <2>8. CallKnown(call[c])' /\ CallRead(call[c])' /\ EditPressed(call[c])' /\ MovePressed(call[c])'
    BY <2>4 DEF CallKnown, CallRead, EditPressed, MovePressed, NoCall, Edits, Moves
  <2>9. ExamKnown' /\ ExamReads' /\ ExamPresses' /\ ExamLoads'
    <3>1. ExamKnown' /\ ExamReads' /\ ExamPresses'
      BY <2>1, <2>4, <2>5, <2>7, <2>8, PartsKept
    <3> QED
      BY <2>5, <3>1 DEF ExamLoads
  <2>10. ASSUME ~slipped', SameSubjects, SameValues, InOrder PROVE SameSubjects' /\ SameValues' /\ InOrder'
    <3>1. site = "home" /\ ~slipped /\ m.fresh
      BY <1>0, <1>4, <2>1, <2>10, ExamTypes
    <3>2. scopes[o.of].val[f] = w[f]
      BY <1>1, <1>2, <2>2, <3>1 DEF ExamInv, ExamPresses, EditPressed, Edits
    <3>3. SameSubjects'
      BY <2>1, <2>5, <2>10 DEF SameSubjects, Of
    <3>4. InOrder'
      BY <2>1, <2>5, <2>7, <2>10, <3>1 DEF InOrder
    <3>5. ASSUME NEW i \in DOMAIN view.list, NEW g \in {"name", "order", "text"}
          PROVE  Coming(view.list[i], g)' \/ Get(view.list[i])'[g] = scopes'[view'.list[i].of].val[g]
      <4>1. PICK p \in Object : p = view.list[i] /\ p = view'.list[i]
        BY <1>0, <2>5, ExamTypes
      <4>2. CASE p = o /\ g = f
        BY <2>1, <2>6, <3>2, <4>1, <4>2
      <4>3. CASE ~(p = o /\ g = f)
        <5>1. Coming(p, g) \/ Get(p)[g] = scopes[p.of].val[g]
          BY <2>10, <4>1 DEF SameValues
        <5>2. Get(view.list[i])'[g] = Get(p)[g]
          BY <2>6, <4>1, <4>3
        <5>3. ~Brings(call[c], p, g)
          BY <1>1, <1>2, <2>2, <4>3 DEF Brings
        <5>4. Coming(p, g) => Coming(p, g)'
          <6>1. \A d \in Call \ {c} : Brings(call[d], p, g) => Brings(call[d], p, g)'
            BY <1>0, <2>1, <2>4, AsideHas
          <6> QED
            BY <5>3, <6>1 DEF Coming
        <5> QED
          BY <2>1, <4>1, <5>1, <5>2, <5>4
      <4> QED
        BY <4>2, <4>3
    <3>6. SameValues'
      BY <2>5, <3>5 DEF SameValues
    <3> QED
      BY <3>3, <3>4, <3>6
  <2>11. ExamShows'
    <3>1. ASSUME ~slipped' PROVE \A d \in Call : Due(call[d]) => Due(call[d])'
      <4>1. ~Due(call[c])
        BY <1>1, <1>2, <1>4, <2>1, <3>1 DEF Due
      <4>2. \A d \in Call \ {c} : Due(call[d]) => Due(call[d])'
        BY <1>0, <2>1, <2>4, AsideHas
      <4> QED
        BY <4>1, <4>2
    <3> QED
      BY <2>1, <2>10, <3>1 DEF ExamShows, ExamInv
  <2> QED
    BY <2>9, <2>11 DEF ExamInv
<1> QED
  BY <1>3, <1>4

\* Where the object at place k of a list was before places i and j were exchanged.
Across(k, i, j) == IF k = i THEN j ELSE IF k = j THEN i ELSE k

\* Two splices at neighbouring places exchange what is there.
LEMMA SplicedHas ==
  ASSUME NEW S, NEW list \in Seq(S), NEW n \in Nat, n = Len(list), NEW i \in Nat, NEW j \in Nat,
         1 <= i, i <= n, 1 <= j, j <= n, j = i - 1 \/ j = i + 1, NEW o, o = list[i]
  PROVE  /\ DOMAIN Spliced(list, i, j, o) = 1..n
         /\ \A k \in 1..n : Spliced(list, i, j, o)[k] = list[Across(k, i, j)]
<1>0. o \in S /\ \A k \in 1..n : list[k] \in S
  OBVIOUS
<1>1. PICK u, v, rest : u = SubSeq(list, 1, i - 1) /\ v = SubSeq(list, i + 1, n) /\ rest = u \o v
  OBVIOUS
<1>2. u \in Seq(S) /\ Len(u) = i - 1 /\ \A k \in 1..(i - 1) : u[k] = list[k]
  BY <1>0, <1>1, SubSeqProperties
<1>3. v \in Seq(S) /\ Len(v) = n - i /\ \A k \in 1..(n - i) : v[k] = list[i + k]
  <2>1. PICK a \in Int : a = i + 1
    OBVIOUS
  <2>2. v = SubSeq(list, a, n) /\ n \in Int /\ \A k \in a..n : list[k] \in S
    BY <1>0, <1>1, <2>1
  <2>3. /\ v \in Seq(S) /\ Len(v) = IF a <= n THEN n - a + 1 ELSE 0
        /\ \A k \in 1..(n - a + 1) : v[k] = list[a + k - 1]
    BY <2>2, SubSeqProperties
  <2>4. v \in Seq(S) /\ Len(v) = n - i
    BY <2>1, <2>3
  <2>5. ASSUME NEW k \in 1..(n - i) PROVE v[k] = list[i + k]
    <3>1. k \in 1..(n - a + 1) /\ a + k - 1 = i + k
      BY <2>1
    <3> QED
      BY <2>3, <3>1
  <2> QED
    BY <2>4, <2>5
<1>4. /\ rest \in Seq(S) /\ Len(rest) = n - 1
      /\ \A k \in 1..(n - 1) : rest[k] = IF k < i THEN list[k] ELSE list[k + 1]
  <2>1. /\ rest \in Seq(S) /\ Len(rest) = n - 1
        /\ \A k \in 1..(n - 1) : rest[k] = IF k <= i - 1 THEN u[k] ELSE v[k - (i - 1)]
    <3>1. /\ rest \in Seq(S) /\ Len(rest) = Len(u) + Len(v)
          /\ \A k \in 1..(Len(u) + Len(v)) : rest[k] = IF k <= Len(u) THEN u[k] ELSE v[k - Len(u)]
      <4>1. u \in Seq(S) /\ v \in Seq(S) /\ rest = u \o v
        BY <1>1, <1>2, <1>3
      <4> QED
        BY <4>1, ConcatProperties
    <3>2. Len(u) + Len(v) = n - 1
      <4>1. Len(u) = i - 1 /\ Len(v) = n - i
        BY <1>2, <1>3
      <4> QED
        BY <4>1
    <3> QED
      BY <1>2, <3>1, <3>2
  <2>2. ASSUME NEW k \in 1..(n - 1), ~(k < i) PROVE v[k - (i - 1)] = list[k + 1]
    <3>1. k - (i - 1) \in 1..(n - i) /\ i + (k - (i - 1)) = k + 1
      BY <2>2
    <3> QED
      BY <1>3, <3>1
  <2> QED
    BY <1>2, <2>1, <2>2
<1>5. Spliced(list, i, j, o) = SubSeq(rest, 1, j - 1) \o <<o>> \o SubSeq(rest, j, n - 1)
  <2>1. Lists!RemoveAt(list, i) = rest
    BY <1>1 DEF Lists!RemoveAt
  <2>2. (IF j <= Len(rest) THEN j ELSE Len(rest) + 1) = j
    BY <1>4
  <2> QED
    BY <1>4, <2>1, <2>2 DEF Spliced, Lists!InsertAt
<1>6. PICK w, x, z, y : w = SubSeq(rest, 1, j - 1) /\ x = <<o>> /\ z = SubSeq(rest, j, n - 1) /\ y = w \o x
  OBVIOUS
<1>7. \A k \in 1..(n - 1) : rest[k] \in S
  BY <1>4
<1>8. w \in Seq(S) /\ Len(w) = j - 1 /\ \A k \in 1..(j - 1) : w[k] = rest[k]
  <2>1. PICK b \in Int : b = j - 1
    OBVIOUS
  <2>2. w = SubSeq(rest, 1, b) /\ \A k \in 1..b : rest[k] \in S
    BY <1>6, <1>7, <2>1
  <2>3. /\ w \in Seq(S) /\ Len(w) = IF 1 <= b THEN b - 1 + 1 ELSE 0
        /\ \A k \in 1..(b - 1 + 1) : w[k] = rest[1 + k - 1]
    BY <2>2, SubSeqProperties
  <2>4. b - 1 + 1 = b /\ \A k \in 1..b : 1 + k - 1 = k
    BY <2>1
  <2> QED
    BY <2>1, <2>3, <2>4
<1>9. z \in Seq(S) /\ Len(z) = n - j /\ \A k \in 1..(n - j) : z[k] = rest[j + k - 1]
  <2>1. PICK b \in Int : b = n - 1
    OBVIOUS
  <2>2. z = SubSeq(rest, j, b) /\ j \in Int /\ \A k \in j..b : rest[k] \in S
    BY <1>6, <1>7, <2>1
  <2>3. /\ z \in Seq(S) /\ Len(z) = IF j <= b THEN b - j + 1 ELSE 0
        /\ \A k \in 1..(b - j + 1) : z[k] = rest[j + k - 1]
    BY <2>2, SubSeqProperties
  <2>4. b - j + 1 = n - j
    BY <2>1
  <2> QED
    BY <2>1, <2>3, <2>4
<1>10. y \in Seq(S) /\ Len(y) = j /\ \A k \in 1..j : y[k] = IF k <= j - 1 THEN w[k] ELSE o
  <2>1. x \in Seq(S) /\ Len(x) = 1 /\ x[1] = o
    BY <1>0, <1>6
  <2>2. y \in Seq(S) /\ Len(y) = j /\ \A k \in 1..j : y[k] = IF k <= j - 1 THEN w[k] ELSE x[k - (j - 1)]
    BY <1>6, <1>8, <2>1, ConcatProperties
  <2>3. \A k \in 1..j : ~(k <= j - 1) => k - (j - 1) = 1
    OBVIOUS
  <2> QED
    BY <2>1, <2>2, <2>3
<1>11. PICK res : res = y \o z /\ res = Spliced(list, i, j, o)
  BY <1>5, <1>6
<1>12. DOMAIN res = 1..n /\ \A k \in 1..n : res[k] = IF k <= j THEN y[k] ELSE z[k - j]
  <2>1. /\ res \in Seq(S) /\ Len(res) = n
        /\ \A k \in 1..n : res[k] = IF k <= j THEN y[k] ELSE z[k - j]
    <3>1. /\ res \in Seq(S) /\ Len(res) = Len(y) + Len(z)
          /\ \A k \in 1..(Len(y) + Len(z)) : res[k] = IF k <= Len(y) THEN y[k] ELSE z[k - Len(y)]
      <4>1. y \in Seq(S) /\ z \in Seq(S) /\ res = y \o z
        BY <1>9, <1>10, <1>11
      <4> QED
        BY <4>1, ConcatProperties
    <3>2. Len(y) + Len(z) = n
      <4>1. Len(y) = j /\ Len(z) = n - j
        BY <1>9, <1>10
      <4> QED
        BY <4>1
    <3> QED
      BY <1>10, <3>1, <3>2
  <2> QED
    BY <2>1
<1>13. ASSUME NEW k \in Nat, 1 <= k, k <= n
       PROVE  res[k] = IF k < j THEN rest[k] ELSE IF k = j THEN o ELSE rest[k - 1]
  <2>1. CASE k <= j
    BY <1>8, <1>10, <1>12, <1>13, <2>1
  <2>2. CASE k > j
    <3>1. k - j \in 1..(n - j) /\ j + (k - j) - 1 = k - 1
      BY <1>13, <2>2
    <3> QED
      BY <1>9, <1>12, <1>13, <2>2, <3>1
  <2> QED
    BY <2>1, <2>2
<1>14. ASSUME NEW k \in Nat, 1 <= k, k <= n PROVE res[k] = list[Across(k, i, j)]
  <2>1. CASE k = j
    BY <1>13, <1>14, <2>1 DEF Across
  <2>2. CASE k # j /\ k = i
    <3>1. CASE j = i + 1
      <4>1. res[k] = rest[i] /\ i \in 1..(n - 1)
        BY <1>13, <1>14, <2>2, <3>1
      <4> QED
        BY <1>4, <2>2, <3>1, <4>1 DEF Across
    <3>2. CASE j = i - 1
      <4>1. res[k] = rest[i - 1] /\ i - 1 \in 1..(n - 1)
        BY <1>13, <1>14, <2>2, <3>2
      <4> QED
        BY <1>4, <2>2, <3>2, <4>1 DEF Across
    <3> QED
      BY <3>1, <3>2
  <2>3. CASE k # j /\ k # i
    <3>1. CASE k < j
      <4>1. res[k] = rest[k] /\ k \in 1..(n - 1) /\ k < i
        BY <1>13, <1>14, <2>3, <3>1
      <4> QED
        BY <1>4, <2>3, <4>1 DEF Across
    <3>2. CASE k > j
      <4>1. res[k] = rest[k - 1] /\ k - 1 \in 1..(n - 1) /\ ~(k - 1 < i) /\ (k - 1) + 1 = k
        BY <1>13, <1>14, <2>3, <3>2
      <4> QED
        BY <1>4, <2>3, <4>1 DEF Across
    <3> QED
      BY <2>3, <3>1, <3>2
  <2> QED
    BY <2>1, <2>2, <2>3
<1> QED
  BY <1>11, <1>12, <1>14

LEMMA AcrossHas ==
  ASSUME NEW D, NEW i \in D, NEW j \in D
  PROVE  /\ \A k \in D : Across(k, i, j) \in D /\ Across(Across(k, i, j), i, j) = k
         /\ \A k, l \in D : k # l => Across(k, i, j) # Across(l, i, j)
  BY DEF Across

LEMMA RenumberedHas ==
  ASSUME ExamTypeOK, NEW m \in MoveCall, NEW heap, heap = Renumbered(m)
  PROVE  /\ heap \in [1..MaxCopy -> [Subject -> Value]]
         /\ \A q \in Object :
              /\ heap[q.copy][q.of].order = IF q = m.other THEN m.a ELSE IF q = m.item THEN m.b ELSE Get(q).order
              /\ \A g \in {"name", "text"} : heap[q.copy][q.of][g] = Get(q)[g]
<1>1. PICK o, r, a, b : o = m.item /\ r = m.other /\ a = m.a /\ b = m.b
  OBVIOUS
<1>2. o \in Object /\ r \in Object /\ a \in 0..MaxOrder /\ b \in 0..MaxOrder
  BY <1>1 DEF MoveCall
<1>3. PICK one : one = Numbered(objects, o, b)
  OBVIOUS
<1>4. one \in [1..MaxCopy -> [Subject -> Value]] /\ NumberedIs(one, objects, o, b)
  BY <1>2, <1>3, ExamTypes, NumberedTyped
<1>5. heap = Numbered(one, r, a)
  BY <1>1, <1>3, Zenon DEF Renumbered, Numbered
<1>6. heap \in [1..MaxCopy -> [Subject -> Value]] /\ NumberedIs(heap, one, r, a)
  BY <1>2, <1>4, <1>5, NumberedTyped
<1>7. ASSUME NEW q \in Object
      PROVE  /\ heap[q.copy][q.of].order = IF q = r THEN a ELSE IF q = o THEN b ELSE Get(q).order
             /\ \A g \in {"name", "text"} : heap[q.copy][q.of][g] = Get(q)[g]
  <2>1. PICK v, w, x : v = Get(q) /\ w = one[q.copy][q.of] /\ x = heap[q.copy][q.of]
    OBVIOUS
  <2>2. v \in Value
    BY <2>1, ExamTypes
  <2>3. w = IF q = o THEN [v EXCEPT !.order = b] ELSE v
    BY <1>4, <2>1 DEF Get, NumberedIs
  <2>4. w \in Value
    BY <1>2, <2>2, <2>3, OrderTyped
  <2>5. x = IF q = r THEN [w EXCEPT !.order = a] ELSE w
    BY <1>6, <2>1 DEF NumberedIs
  <2>6. w.order = (IF q = o THEN b ELSE v.order) /\ w.name = v.name /\ w.text = v.text
    BY <2>2, <2>3 DEF Value
  <2>7. x.order = (IF q = r THEN a ELSE w.order) /\ x.name = w.name /\ x.text = w.text
    BY <2>4, <2>5 DEF Value
  <2> QED
    BY <2>1, <2>6, <2>7
<1> QED
  BY <1>1, <1>6, <1>7

LEMMA FinishMoveInv == ASSUME ExamInv, ExamTypeOK', NEW c \in Call, FinishMove(c) PROVE ExamInv'
<1>0. ExamTypeOK
  BY DEF ExamInv
<1>1. PICK m : m = call[c]
  OBVIOUS
<1>2. m \in MoveCall /\ m.op = "moved"
  <2>1. m.op = "moved"
    BY <1>1, Zenon DEF FinishMove
  <2> QED
    BY <1>0, <1>1, <2>1, CallKinds, ExamTypes DEF Moves
<1>3. CASE site = "oj"
  <2>1. LoadExam(c, m.exam, view)
    BY <1>1, <1>3, Zenon DEF FinishMove
  <2>2. m.exam \in Exam
    BY <1>2 DEF MoveCall
  <2> QED
    BY <2>1, <2>2, LoadInv
<1>4. CASE site # "oj"
  <2>1. PICK heap, l, cs : /\ heap = Renumbered(m) /\ l = Spliced(view.list, m.i, m.j, m.item) /\ cs = call'
                           /\ objects' = Collected(heap, l, cs)
                           /\ view' = [view EXCEPT !.shown = "list", !.list = l]
                           /\ call' = Overtaking(c, NoCall, Moves)
                           /\ slipped' = (slipped \/ ~m.fresh \/ m.tied)
                           /\ UNCHANGED <<site, scopes, presses>>
    BY <1>1, <1>4, Zenon DEF FinishMove
  <2>2. PICK i \in Nat, j \in Nat, o \in Object, r \in Object :
          i = m.i /\ j = m.j /\ o = m.item /\ r = m.other /\ i >= 1 /\ j >= 1
    <3>1. m.i \in 1..(MaxOrder + 1) /\ m.j \in 1..(MaxOrder + 1) /\ m.item \in Object /\ m.other \in Object
      BY <1>2 DEF MoveCall
    <3>2. m.i \in Nat /\ m.j \in Nat /\ m.i >= 1 /\ m.j >= 1
      BY <3>1
    <3> QED
      BY <3>1, <3>2
  <2>3. /\ heap \in [1..MaxCopy -> [Subject -> Value]]
        /\ \A q \in Object :
             /\ heap[q.copy][q.of].order = IF q = r THEN m.a ELSE IF q = o THEN m.b ELSE Get(q).order
             /\ \A g \in {"name", "text"} : heap[q.copy][q.of][g] = Get(q)[g]
    BY <1>0, <1>2, <2>1, <2>2, RenumberedHas
  <2>4. Aside(c) /\ call'[c] = NoCall /\ \A d \in Call \ {c} : call[d].op \in Moves => StaleOf(call'[d], call[d])
    <3>1. NoCall \in Calls /\ Moves \in SUBSET Marked
      BY DEF Calls, Marked
    <3> QED
      BY <1>0, <2>1, <3>1, OvertakingAside
  <2>5. view'.list = l /\ view'.exam = view.exam /\ view'.shown = "list"
    BY <1>0, <2>1 DEF ExamTypeOK
  <2>6. CallKnown(call[c])' /\ CallRead(call[c])'
    BY <2>4 DEF CallKnown, CallRead, NoCall, Edits, Moves
  <2>7. ExamKnown' /\ ExamReads'
    <3>1. \A d \in Call : CallKnown(call[d])' /\ CallRead(call[d])'
      BY <1>0, <2>1, <2>4, <2>6, AsideKept DEF ExamInv
    <3>2. PICK S : S = {q \in Object : IsRow(q.of)}
      OBVIOUS
    <3>3. o \in S
      BY <1>1, <1>2, <2>2, <3>2 DEF ExamInv, ExamKnown, CallKnown, Moves
    <3>4. view.list \in Seq(S)
      <4>a1. PICK n \in Nat : \E f :
              f = view.list /\ n = Len(f) /\ f \in Seq(Object)
        BY <1>0, ExamTypes
      <4>1. PICK f :
              f = view.list /\ n = Len(f) /\ f \in Seq(Object)
        BY <4>a1, Zenon
      <4>2. \A k \in DOMAIN f : f[k] \in Object /\ IsRow(f[k].of)
        BY <1>0, <4>1, ExamTypes DEF ExamInv, ExamKnown
      <4>3. f \in [1..n -> S]
        BY <3>2, <4>1, <4>2
      <4> QED
        BY <4>1, <4>3, AsSequence
    <3>5. l \in Seq(S)
      BY <2>1, <2>2, <3>3, <3>4, SplicedTyped
    <3>6. \A k \in DOMAIN l : IsRow(l[k].of)
      <4>1. \A k \in DOMAIN l : l[k] \in S
        BY <3>5
      <4> QED
        BY <3>2, <4>1
    <3>7. \A k \in DOMAIN view'.list : IsRow(view.list[k].of)'
      BY <2>1, <2>5, <3>6 DEF IsRow
    <3> QED
      BY <3>1, <3>7 DEF ExamKnown, ExamReads
  \* What the press of a move that nothing overtook says of the list.
  <2>8. ASSUME ~slipped'
        PROVE  /\ site = "home" /\ ~slipped /\ m.fresh /\ ~m.tied
               /\ i \in DOMAIN view.list /\ j \in DOMAIN view.list /\ (j = i - 1 \/ j = i + 1)
               /\ view.list[i] = o /\ view.list[j] = r /\ Get(o).order = m.a /\ Get(r).order = m.b
               /\ o.of # r.of => scopes[o.of].val.order = m.b
               /\ scopes[r.of].val.order = m.a
    <3>1. site = "home" /\ ~slipped /\ m.fresh /\ ~m.tied
      BY <1>0, <1>2, <1>4, <2>1, <2>8, ExamTypes DEF MoveCall
    <3>2. MovePressed(m) /\ m.op \in Moves
      BY <1>1, <1>2, <3>1 DEF ExamInv, ExamPresses, Moves
    <3> QED
      BY <1>2, <2>2, <3>1, <3>2 DEF MovePressed
  <2>9. ASSUME ~slipped'
        PROVE  /\ DOMAIN l = DOMAIN view.list
               /\ \A k \in DOMAIN l : Across(k, i, j) \in DOMAIN l /\ l[k] = view.list[Across(k, i, j)]
               /\ \A k \in DOMAIN l : Across(Across(k, i, j), i, j) = k
    <3>0. PICK f, n : f = view.list /\ n = Len(f)
      OBVIOUS
    <3>1. f = view.list /\ n = Len(f) /\ f \in Seq(Object) /\ n \in Nat /\ DOMAIN f = 1..n
      <4>1. f \in Seq(Object)
        BY <1>0, <3>0, ExamTypes
      <4> QED
        BY <3>0, <4>1
    <3>2. i <= n /\ j <= n /\ (j = i - 1 \/ j = i + 1) /\ o = f[i]
      BY <2>8, <2>9, <3>1
    <3>3. DOMAIN Spliced(f, i, j, o) = 1..n /\ \A k \in 1..n : Spliced(f, i, j, o)[k] = f[Across(k, i, j)]
      <4>1. /\ f \in Seq(Object) /\ n \in Nat /\ n = Len(f) /\ o = f[i]
            /\ i \in Nat /\ j \in Nat /\ i <= n /\ j <= n /\ (j = i - 1 \/ j = i + 1)
        BY <2>2, <3>1, <3>2
      <4>2. 1 <= i /\ 1 <= j
        BY <2>8, <2>9, <3>1
      <4> QED
        BY <4>1, <4>2, SplicedHas, SMTT(60)
    <3>4. l = Spliced(f, i, j, o)
      BY <2>1, <2>2, <3>1
    <3>5. i \in 1..n /\ j \in 1..n
      BY <2>8, <2>9, <3>1
    <3>6. \A k \in 1..n : Across(k, i, j) \in 1..n /\ Across(Across(k, i, j), i, j) = k
      <4>1. PICK D : D = 1..n
        OBVIOUS
      <4>2. i \in D /\ j \in D
        BY <3>5, <4>1
      <4>3. \A k \in D : Across(k, i, j) \in D /\ Across(Across(k, i, j), i, j) = k
        BY <4>2, AcrossHas
      <4> QED
        BY <4>1, <4>3
    <3> QED
      BY <3>1, <3>3, <3>4, <3>6
  <2>10. ExamPresses'
    <3> SUFFICES ASSUME ~slipped', NEW d \in Call PROVE EditPressed(call[d])' /\ MovePressed(call[d])'
      BY DEF ExamPresses
    <3>1. CASE d = c
      BY <2>4, <3>1 DEF EditPressed, MovePressed, NoCall, Edits, Moves
    <3>2. CASE d # c
      <4>1. call'[d].op = call[d].op
        BY <1>0, <2>1, <2>4, <3>2, AsideHas
      <4>2. MovePressed(call[d])'
        BY <2>4, <3>2, <4>1 DEF MovePressed, StaleOf
      <4>3. CASE call'[d] = call[d]
        <5>1. EditPressed(call[d])
          BY <2>8 DEF ExamInv, ExamPresses
        <5>2. \A q : (\E k \in DOMAIN view.list : view.list[k] = q) => \E k \in DOMAIN l : l[k] = q
          BY <2>9
        <5> QED
          BY <2>1, <2>5, <4>2, <4>3, <5>1, <5>2 DEF EditPressed
      <4>4. CASE StaleOf(call'[d], call[d])
        BY <4>2, <4>4 DEF EditPressed, StaleOf
      <4> QED
        BY <2>4, <3>2, <4>3, <4>4 DEF Aside
    <3> QED
      BY <3>1, <3>2
  <2>11. ExamLoads'
    BY <2>5 DEF ExamLoads
  <2>12. ASSUME ~slipped', SameSubjects, SameValues, InOrder PROVE SameSubjects' /\ SameValues' /\ InOrder'
    <3>0. \A k \in DOMAIN l : l[k] \in Object
      BY <1>0, <2>9, <2>12, ExamTypes
    <3>1. ASSUME NEW k \in DOMAIN l PROVE objects'[l[k].copy] = heap[l[k].copy]
      <4>1. l \in Seq(Object)
        BY <1>0, <2>1, <2>2, ExamTypes, SplicedTyped
      <4>2. heap \in [1..MaxCopy -> [Subject -> Value]] /\ objects' = Collected(heap, l, cs)
        BY <2>1, <2>3
      <4> QED
        BY <1>0, <4>1, <4>2, ListKept, Zenon
    <3>2. ASSUME NEW k \in DOMAIN l
          PROVE  /\ Get(l[k])'["order"] = IF l[k] = r THEN m.a ELSE IF l[k] = o THEN m.b ELSE Get(l[k])["order"]
                 /\ \A g \in {"name", "text"} : Get(l[k])'[g] = Get(l[k])[g]
      <4>1. PICK q \in Object : q = l[k]
        BY <3>0
      <4>2. objects'[q.copy] = heap[q.copy]
        BY <3>1, <4>1
      <4>3. Get(q)' = heap[q.copy][q.of]
        BY <4>2 DEF Get
      <4>4. Get(l[k])' = Get(q)'
        BY <4>1
      <4> QED
        BY <2>3, <4>1, <4>3, <4>4
    <3>3. \A x, y \in DOMAIN l : x # y => l[x].of # l[y].of
      BY <2>9, <2>12 DEF SameSubjects
    <3>4. SameSubjects'
      <4>1. {l[k].of : k \in DOMAIN l} = {view.list[k].of : k \in DOMAIN view.list}
        BY <2>9, <2>12
      <4>2. Of(view.exam)' = Of(view.exam)
        BY <2>1, <2>5 DEF Of
      <4> QED
        BY <2>5, <2>12, <3>3, <4>1, <4>2 DEF SameSubjects
    <3>5. o.of # r.of /\ o # r
      <4>1. i # j
        BY <2>8, <2>12
      <4>2. view.list[i].of # view.list[j].of
        BY <2>8, <2>12, <4>1 DEF SameSubjects
      <4> QED
        BY <2>8, <2>12, <4>2
    <3>6. ASSUME NEW k \in DOMAIN l, NEW g \in {"name", "order", "text"}
          PROVE  Coming(l[k], g)' \/ Get(l[k])'[g] = scopes'[l[k].of].val[g]
      <4>1. PICK q \in Object : q = l[k]
        BY <3>0
      <4>2. CASE g = "order" /\ q = r
        <5>1. Get(l[k])'[g] = m.a
          BY <3>2, <4>1, <4>2
        <5>2. scopes'[q.of].val[g] = m.a
          BY <2>1, <2>8, <2>12, <4>2
        <5> QED
          BY <4>1, <5>1, <5>2
      <4>3. CASE g = "order" /\ q = o /\ q # r
        <5>1. Get(l[k])'[g] = m.b
          BY <3>2, <4>1, <4>3
        <5>2. scopes'[q.of].val[g] = m.b
          BY <2>1, <2>8, <2>12, <3>5, <4>3
        <5> QED
          BY <4>1, <5>1, <5>2
      <4>4. CASE ~(g = "order" /\ (q = o \/ q = r))
        <5>1. Coming(q, g) \/ Get(q)[g] = scopes[q.of].val[g]
          BY <2>9, <2>12, <4>1 DEF SameValues
        <5>2. Get(l[k])'[g] = Get(q)[g]
          BY <3>2, <4>1, <4>4
        <5>3. ~Brings(call[c], q, g)
          BY <1>1, <1>2, <2>2, <4>4 DEF Brings
        <5>4. Coming(q, g) => Coming(q, g)'
          <6>1. \A d \in Call \ {c} : Brings(call[d], q, g) => Brings(call[d], q, g)'
            BY <1>0, <2>1, <2>4, AsideHas
          <6> QED
            BY <5>3, <6>1 DEF Coming
        <5> QED
          BY <2>1, <4>1, <5>1, <5>2, <5>4
      <4> QED
        BY <4>2, <4>3, <4>4
    <3>7. SameValues'
      BY <2>5, <3>6 DEF SameValues
    <3>8. ASSUME NEW k \in DOMAIN l PROVE Get(l[k])'["order"] = Get(view.list[k])["order"]
      <4>1. CASE k = i
        <5>1. l[k] = r
          BY <2>8, <2>9, <2>12, <4>1 DEF Across
        <5> QED
          BY <2>8, <2>12, <3>2, <4>1, <5>1
      <4>2. CASE k = j /\ k # i
        <5>1. l[k] = o
          BY <2>8, <2>9, <2>12, <4>2 DEF Across
        <5> QED
          BY <2>8, <2>12, <3>2, <3>5, <4>2, <5>1
      <4>3. CASE k # i /\ k # j
        <5>1. l[k] = view.list[k]
          BY <2>9, <2>12, <4>3 DEF Across
        <5>2. view.list[k] # o /\ view.list[k] # r
          <6>1. view.list[k].of # view.list[i].of /\ view.list[k].of # view.list[j].of
            BY <2>8, <2>9, <2>12, <4>3 DEF SameSubjects
          <6> QED
            BY <2>8, <2>12, <6>1
        <5> QED
          BY <3>2, <5>1, <5>2
      <4> QED
        BY <4>1, <4>2, <4>3
    <3>9. InOrder'
      <4>1. \A x, y \in DOMAIN view.list : x < y => Get(view.list[x])["order"] <= Get(view.list[y])["order"]
        BY <2>8, <2>12 DEF InOrder
      <4>2. \A x, y \in DOMAIN l : x < y => Get(l[x])'["order"] <= Get(l[y])'["order"]
        BY <2>9, <2>12, <3>8, <4>1
      <4>3. site' = "home"
        BY <2>1, <2>8, <2>12
      <4> QED
        BY <2>5, <4>2, <4>3 DEF InOrder
    <3> QED
      BY <3>4, <3>7, <3>9
  <2>13. ExamShows'
    <3>1. ASSUME ~slipped' PROVE \A d \in Call : Due(call[d]) => Due(call[d])'
      <4>1. ~Due(call[c])
        BY <1>1, <1>2, <2>8, <3>1 DEF Due
      <4>2. \A d \in Call \ {c} : Due(call[d]) => Due(call[d])'
        BY <1>0, <2>1, <2>4, AsideHas
      <4> QED
        BY <4>1, <4>2
    <3>2. ~slipped' => ~slipped
      BY <2>8
    <3> QED
      BY <2>12, <3>1, <3>2 DEF ExamShows, ExamInv
  <2> QED
    BY <2>7, <2>10, <2>11, <2>13 DEF ExamInv
<1> QED
  BY <1>3, <1>4

LEMMA ExamStepInv == ExamInv /\ [ExamNext]_examVars => ExamInv'
<1> SUFFICES ASSUME ExamInv, [ExamNext]_examVars PROVE ExamInv'
  OBVIOUS
<1>1. ExamTypeOK'
  BY ExamStepTyped DEF ExamInv
<1>2. CASE UNCHANGED examVars
  <2>1. UNCHANGED <<site, scopes, objects, view, call, slipped>>
    BY <1>2 DEF examVars
  <2>2. ExamKnown' /\ ExamReads'
    <3>1. ExamKnown' = ExamKnown
      BY <2>1 DEF ExamKnown, CallKnown, IsRow
    <3>2. \A rows, x : IsStored(rows, x)' = IsStored(rows, x)
      BY <2>1 DEF IsStored, Of, Precedes
    <3>3. ExamReads' = ExamReads
      BY <2>1, <3>2 DEF ExamReads, CallRead
    <3> QED
      BY <3>1, <3>3 DEF ExamInv
  <2>3. ExamPresses' /\ ExamLoads'
    <3>1. ExamPresses' = ExamPresses
      BY <2>1 DEF ExamPresses, EditPressed, MovePressed, Get
    <3>2. ExamLoads' = ExamLoads
      BY <2>1 DEF ExamLoads
    <3> QED
      BY <3>1, <3>2 DEF ExamInv
  <2>4. ExamShows'
    <3>1. SameSubjects' = SameSubjects
      BY <2>1 DEF SameSubjects, Of
    <3>2. SameValues' = SameValues
      BY <2>1 DEF SameValues, Coming, Brings, Get
    <3>3. InOrder' = InOrder
      BY <2>1 DEF InOrder, Precedes, Get
    <3>4. (\E c \in Call : Due(call[c]))' = (\E c \in Call : Due(call[c]))
      BY <2>1 DEF Due
    <3> QED
      BY <2>1, <3>1, <3>2, <3>3, <3>4 DEF ExamInv, ExamShows
  <2> QED
    BY <1>1, <2>2, <2>3, <2>4 DEF ExamInv
<1>3. CASE ExamNext
  BY <1>1, <1>3, SelectInv, ReadInv, ShowInv, LoadFailsInv, PressEditInv, PressMoveInv, PressAddInv,
     ServeEditInv, ServeMoveInv, ServeLastInv, ServeAddInv, FinishEditInv, FinishMoveInv,
     FinishAddInv, AlertInv, Zenon DEF ExamNext
<1> QED
  BY <1>2, <1>3

LEMMA ExamStartInv == ExamInit => ExamInv
<1> SUFFICES ASSUME ExamInit PROVE ExamInv
  OBVIOUS
<1>1. ExamTypeOK
  BY ExamTypeInit
<1>a2. PICK c \in Call : \E q :
        /\ q = [op |-> "load", exam |-> "MIDTERM", fresh |-> TRUE]
        /\ call = [d \in Call |-> IF d = c THEN q ELSE NoCall]
  BY Zenon DEF ExamInit
<1>2. PICK q :
        /\ q = [op |-> "load", exam |-> "MIDTERM", fresh |-> TRUE]
        /\ call = [d \in Call |-> IF d = c THEN q ELSE NoCall]
  BY <1>a2, Zenon
<1>3. q.op = "load" /\ call[c] = q /\ \A d \in Call : call[d].op \in {"none", "load"}
  BY <1>2 DEF NoCall
<1>4. view.list = <<>>
  BY DEF ExamInit
<1>5. ExamKnown
  BY <1>3, <1>4 DEF ExamKnown, CallKnown, Edits, Moves
<1>6. ExamReads /\ ExamPresses
  BY <1>3 DEF ExamReads, ExamPresses, CallRead, EditPressed, MovePressed, Edits, Moves
<1>7. ExamLoads /\ ExamShows
  BY <1>3 DEF ExamLoads, ExamShows, Due
<1> QED
  BY <1>1, <1>5, <1>6, <1>7 DEF ExamInv

\* At rest nothing is due and nothing is coming.
LEMMA ExamAtRest == ExamInv => ShownIsStored
<1> SUFFICES ASSUME ExamInv, \A c \in Call : call[c] = NoCall
             PROVE  /\ view.shown # "loading"
                    /\ view.shown = "list" /\ ~slipped /\ ~(site = "home" /\ Tied(view.exam))
                         => IsStored(ShownExam, view.exam)
  BY DEF ShownIsStored
<1>1. \A c \in Call : call[c].op = "none"
  BY DEF NoCall
<1>2. view.shown # "loading"
  BY <1>1 DEF ExamInv, ExamLoads
<1>3. ASSUME ~slipped, ~(site = "home" /\ Tied(view.exam)) PROVE IsStored(ShownExam, view.exam)
  <2>1. \A c \in Call : ~Due(call[c]) /\ \A o, f : ~Brings(call[c], o, f)
    BY <1>1 DEF Due, Brings
  <2>2. SameSubjects /\ SameValues /\ InOrder
    BY <1>3, <2>1 DEF ExamInv, ExamShows
  <2>3. /\ DOMAIN ShownExam = DOMAIN view.list
        /\ \A i \in DOMAIN view.list : ShownExam[i] = <<view.list[i].of, Get(view.list[i])>>
    BY DEF ShownExam
  <2>4. ASSUME NEW i \in DOMAIN view.list PROVE Get(view.list[i]) = scopes[view.list[i].of].val
    <3>1. PICK v, w : v = Get(view.list[i]) /\ w = scopes[view.list[i].of].val
      OBVIOUS
    <3>2. v \in Value /\ w \in Value
      BY <3>1, ExamTypes DEF ExamInv, Stored
    <3>3. \A f \in {"name", "order", "text"} : v[f] = w[f]
      BY <2>1, <2>2, <3>1 DEF SameValues, Coming
    <3>4. v.name = w.name /\ v.order = w.order /\ v.text = w.text
      BY <3>3
    <3>5. v = w
      BY <3>2, <3>4 DEF Value
    <3> QED
      BY <3>1, <3>5
  <2>5. \A i, j \in DOMAIN view.list : i < j => Precedes(view.list[i].of, view.list[j].of)
    <3> SUFFICES ASSUME NEW i \in DOMAIN view.list, NEW j \in DOMAIN view.list, i < j
                 PROVE  Precedes(view.list[i].of, view.list[j].of)
      OBVIOUS
    <3>1. CASE site = "home"
      <4>1. PICK s, q : s = view.list[i].of /\ q = view.list[j].of
        OBVIOUS
      <4>2. s \in Of(view.exam) /\ q \in Of(view.exam) /\ s # q
        <5>1. i # j
          <6>1. view.list \in Seq(Object)
            BY ExamTypes DEF ExamInv
          <6> QED
            BY <6>1
        <5> QED
          BY <2>2, <4>1, <5>1 DEF SameSubjects
      <4>3. scopes[s].val.order <= scopes[q].val.order
        BY <2>2, <2>4, <3>1, <4>1 DEF InOrder
      <4>4. scopes[s].val.order # scopes[q].val.order
        BY <1>3, <3>1, <4>2 DEF Tied
      <4>5. PICK m, n : m = scopes[s].val.order /\ n = scopes[q].val.order
        OBVIOUS
      <4>6. m \in Nat /\ n \in Nat
        <5>1. scopes[s].val \in Value /\ scopes[q].val \in Value
          BY <4>2, ExamTypes DEF ExamInv, Of, Stored
        <5> QED
          BY <4>5, <5>1, ExamScopesAssumption DEF Value
      <4>7. m < n
        BY <4>3, <4>4, <4>5, <4>6
      <4> QED
        BY <4>1, <4>5, <4>7 DEF Precedes
    <3>2. CASE site = "oj"
      BY <2>2, <3>2 DEF InOrder
    <3> QED
      BY <3>1, <3>2, ExamTypes DEF ExamInv
  <2> QED
    BY <2>2, <2>3, <2>4, <2>5 DEF IsStored, SameSubjects
<1> QED
  BY <1>2, <1>3

\* The rows, the objects and the requests of the editor keep their shape: whatever is pressed or
\* answered, a write stores a number within the bound, and the list a move splices stays one of objects.
THEOREM ExamTyped == ExamSpec => []ExamTypeOK
<1>1. ExamInit => ExamTypeOK
  BY ExamTypeInit
<1>2. ExamTypeOK /\ [ExamNext]_examVars => ExamTypeOK'
  BY ExamStepTyped
<1> QED
  BY <1>1, <1>2, PTL DEF ExamSpec

\* A page at rest is not loading, and unless the list was overtaken, strayed or failed it shows the
\* subjects of the exam in the order and with the values the service stores: the splices of the home
\* page arrive where the service's sort does (exam-scope.js, ExamScopePage, ExamScopesService.list).
THEOREM ExamListIsStored == ExamSpec => []ShownIsStored
<1>1. ExamInit => ExamInv
  BY ExamStartInv
<1>2. ExamInv /\ [ExamNext]_examVars => ExamInv'
  BY ExamStepInv
<1>3. ExamInv => ShownIsStored
  BY ExamAtRest
<1> QED
  BY <1>1, <1>2, <1>3, PTL DEF ExamSpec

-----------------------------------------------------------------------------
(***************************************************************************)
(* The four modules side by side.                                          *)
(***************************************************************************)

\* The page of a post and its presses keep their types, for any number of presses.
THEOREM PageTyped == CommunityPageSpec => []CommunityPageTypeOK
<1>1. CommunityPageInit => CommunityPageTypeOK /\ OnePress
  BY PageTypeInit DEF CommunityPageInit, OnePress, Settled
<1>2. /\ CommunityPageTypeOK /\ OnePress /\ [CommunityPageNext]_communityPageVars
      => (CommunityPageTypeOK /\ OnePress)'
  BY PageTypeStep, OnePressStep
<1> QED
  BY <1>1, <1>2, PTL DEF CommunityPageSpec

\* A calendar and its operations keep their types, for any schedules, months and operations.
THEOREM CalendarTyped == CalendarSpec => []CalendarTypeOK
<1>1. CalendarInv => CalendarTypeOK
  BY DEF CalendarInv, CalendarShape
<1> QED
  BY <1>1, CalendarHolds, PTL

\* A behaviour of MCClub is one of each module: what TLC checks of the four together the
\* theorems of each module state for any values of its constants.
THEOREM ClubIsEach ==
  ClubSpec => CalendarSpec /\ ExamSpec /\ CommunitySpec /\ CommunityPageSpec
<1>1. ClubInit => CalendarInit /\ ExamInit /\ CommunityInit /\ CommunityPageInit
  BY DEF ClubInit, CalendarRest, ExamStart
<1>2. [ClubNext]_<<part, calendarVars, examVars, communityVars, communityPageVars>>
      => /\ [CalendarNext]_calendarVars /\ [ExamNext]_examVars
         /\ [CommunityNext]_communityVars /\ [CommunityPageNext]_communityPageVars
  BY DEF ClubNext
<1> QED
  BY <1>1, <1>2, PTL DEF ClubSpec, CalendarSpec, ExamSpec, CommunitySpec, CommunityPageSpec

\* All that MCClub runs keeps its types: the calendar, the exam's subjects, reports and a post.
THEOREM ClubTyped == ClubSpec => []ClubTypeOK
<1>1. CalendarTypeOK /\ ExamTypeOK /\ CommunityTypeOK /\ CommunityPageTypeOK => ClubTypeOK
  BY DEF ClubTypeOK
<1> QED
  BY <1>1, ClubIsEach, CalendarTyped, ExamTyped, CommunityTyped, PageTyped, PTL

=============================================================================
