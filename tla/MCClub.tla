------------------------------- MODULE MCClub --------------------------------
(* The calendar, the exam scopes, the reports and a post's page, which share *)
(* no state, side by side: a behaviour is one of one of them.                *)
EXTENDS ClubCalendar, ExamScopes, Community, CommunityPage, TLC

VARIABLE part

\* A comment hangs from its post.
MCOn(t) == IF t = "comment" THEN {"post"} ELSE {}

ClubSymmetry ==
  Permutations(Task) \cup Permutations(Month) \cup Permutations(Member) \cup Permutations(Request)

CalendarRest ==
  /\ CalendarInit /\ kind = "home" /\ task[CHOOSE t \in Task : TRUE] # NoTask
  /\ page.month = CHOOSE m \in Month : TRUE
  /\ \A s \in Schedule : schedules[s].status = "NONE" /\ schedules[s].month = page.month

\* One or two subjects in the midterm, against the alphabet; the others are free.
ExamStart ==
  /\ \E n \in 1..2 :
       scopes = [s \in Subject |->
                   IF s > n THEN [exam |-> "NONE", val |-> Blank]
                   ELSE [exam |-> "MIDTERM", val |-> [name |-> 3 - s, order |-> s, text |-> 0]]]
  /\ ExamInit

ClubInit ==
  /\ CommunityInit /\ CommunityPageInit /\ ExamStart
  /\ \/ part = "calendar" /\ CalendarInit
     \/ part \in {"exam", "community", "page"} /\ CalendarRest
  /\ part # "exam" => /\ site = "oj" /\ call[CHOOSE c \in Call : TRUE] # NoCall
                       /\ Cardinality(Of("MIDTERM")) = 1

ClubNext ==
  \/ /\ part = "calendar" /\ CalendarNext
     /\ UNCHANGED <<part, examVars, communityVars, communityPageVars>>
  \/ /\ part = "exam" /\ ExamNext
     /\ UNCHANGED <<part, calendarVars, communityVars, communityPageVars>>
  \/ /\ part = "community" /\ CommunityNext
     /\ UNCHANGED <<part, calendarVars, examVars, communityPageVars>>
  \/ /\ part = "page" /\ CommunityPageNext
     /\ UNCHANGED <<part, calendarVars, examVars, communityVars>>

ClubSpec ==
  ClubInit /\ [][ClubNext]_<<part, calendarVars, examVars, communityVars, communityPageVars>>

\* The variables of the module a behaviour is of have their types; the others rest.
ClubTypeOK ==
  /\ part = "calendar" => CalendarTypeOK
  /\ part = "exam" => ExamTypeOK
  /\ part = "community" => CommunityTypeOK
  /\ part = "page" => CommunityPageTypeOK
=============================================================================
