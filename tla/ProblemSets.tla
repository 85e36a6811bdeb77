----------------------------- MODULE ProblemSets -----------------------------
(***************************************************************************)
(* The problems of a contest or of a class, and the administrators' pages  *)
(* that choose them: setProblems() of ContestsService and ClassesService,  *)
(* ContestProblemsEditor and ClassManager.                                 *)
(*                                                                         *)
(* A save sends everything that is ticked and replaces what is stored, so  *)
(* it takes away whatever the page did not show: what a contest hides      *)
(* before its start, a problem the public list leaves out, another         *)
(* administrator's choice, and on a class's page all there was.            *)
(***************************************************************************)
EXTENDS FiniteSets

CONSTANTS
  Exercise,  \* the problems
  Editor     \* pages that are open on this contest or class

VARIABLES
  kind,        \* "contest" or "class"
  phase,       \* of the contest: phaseOf()
  visible,     \* problemsVisibleAfterEnd
  contestOnly, \* published problems that the public list leaves out
  exists,      \* the problems not deleted
  chosen,      \* contest_problems or class_problems
  editor,      \* the pages
  meant        \* history: what the administrators' ticks add up to

setVars == <<kind, phase, visible, contestOnly, exists, chosen, editor, meant>>

\* got: answers that have arrived; shown: what was ticked then, or at the last save; unaware:
\* the page does not know what is stored, from the start or by now; replaced: what the
\* running transaction deleted.
Page == [op : {"closed", "opening", "ready", "delete", "create"},
         got : SUBSET {"detail", "list"}, detail : SUBSET Exercise, listed : SUBSET Exercise,
         shown : SUBSET Exercise, sent : SUBSET Exercise, replaced : SUBSET Exercise,
         unaware : BOOLEAN]

Closed == [op |-> "closed", got |-> {}, detail |-> {}, listed |-> {}, shown |-> {},
           sent |-> {}, replaced |-> {}, unaware |-> FALSE]

SetsTypeOK ==
  /\ kind \in {"contest", "class"}
  /\ phase \in {"UPCOMING", "RUNNING", "ENDED"}
  /\ visible \in BOOLEAN
  /\ exists \subseteq Exercise
  /\ contestOnly \subseteq exists
  /\ chosen \subseteq exists
  /\ editor \in [Editor -> Page]
  /\ meant \subseteq Exercise

\* A contest may be created with its problems, a class not.
SetsInit ==
  /\ kind \in {"contest", "class"}
  /\ phase = "UPCOMING"
  /\ visible \in IF kind = "contest" THEN BOOLEAN ELSE {FALSE}
  /\ contestOnly = {}
  /\ exists = Exercise
  /\ chosen \in IF kind = "contest" THEN SUBSET Exercise ELSE {{}}
  /\ editor = [e \in Editor |-> Closed]
  /\ meant = chosen

\* What a page becomes; a write outdates what the others know.
Becomes(e, p) == editor' = [editor EXCEPT ![e] = p]

AfterWrite(e, p) ==
  editor' = [f \in Editor |-> IF f = e THEN p ELSE [editor[f] EXCEPT !.unaware = TRUE]]

PassTime ==
  /\ kind = "contest"
  /\ \/ phase = "UPCOMING" /\ phase' = "RUNNING"
     \/ phase = "RUNNING" /\ phase' = "ENDED"
  /\ UNCHANGED <<kind, visible, contestOnly, exists, chosen, editor, meant>>

\* Removing a problem removes its row here too.
DeleteProblem ==
  /\ \E p \in exists : /\ exists' = exists \ {p}
                       /\ chosen' = chosen \ {p}
                       /\ meant' = meant \ {p}
                       /\ contestOnly' = contestOnly \ {p}
  /\ UNCHANGED <<kind, phase, visible, editor>>

\* update() of a problem by an administrator.
SetContestOnly ==
  /\ \E p \in exists : contestOnly' \in {contestOnly \cup {p}, contestOnly \ {p}}
  /\ UNCHANGED <<kind, phase, visible, exists, chosen, editor, meant>>

-----------------------------------------------------------------------------
(* The pages.                                                              *)

PageStep == UNCHANGED <<kind, phase, visible, contestOnly, exists, chosen, meant>>

\* ClassManager shows itself at once, nothing ticked, and never asks what is stored.
Open(e) ==
  /\ editor[e].op = "closed"
  /\ Becomes(e, IF kind = "contest" THEN [Closed EXCEPT !.op = "opening"]
              ELSE [Closed EXCEPT !.op = "ready", !.unaware = TRUE])
  /\ PageStep

\* findBySlug() hides the problems before the start.
Revealed == IF phase = "UPCOMING" THEN {} ELSE chosen

ReadDetail(e) ==
  /\ editor[e].op = "opening" /\ "detail" \notin editor[e].got
  /\ Becomes(e, [editor[e] EXCEPT !.got = @ \cup {"detail"}, !.detail = Revealed,
                                !.unaware = (phase = "UPCOMING")])
  /\ PageStep

\* findAllPublished(), for administrators too.
Listed ==
  {p \in exists :
     p \notin contestOnly
     \/ (kind = "contest" /\ p \in chosen /\ phase = "ENDED" /\ visible)}

ReadList(e) ==
  /\ editor[e].op # "closed" /\ "list" \notin editor[e].got
  /\ Becomes(e, [editor[e] EXCEPT !.got = @ \cup {"list"}, !.listed = Listed])
  /\ PageStep

\* Promise.all: both, or an error, which is all the page shows until it is closed.
Show(e) ==
  LET p == editor[e]
      both == p.detail \cap p.listed
  IN
  /\ p.op = "opening"
  /\ \/ /\ p.got = {"detail", "list"}
        /\ Becomes(e, [p EXCEPT !.op = "ready", !.detail = {}, !.shown = both])
     \/ Becomes(e, Closed)
  /\ PageStep

\* onSave(), saveProblems(): whatever is ticked on the list by now.
Save(e) ==
  /\ editor[e].op = "ready"
  /\ \E ticked \in SUBSET editor[e].listed :
       Becomes(e, [editor[e] EXCEPT !.op = "delete", !.sent = ticked])
  /\ PageStep

CloseEditor(e) ==
  /\ editor[e].op = "ready"
  /\ Becomes(e, Closed)
  /\ PageStep

-----------------------------------------------------------------------------
(* setProblems()                                                           *)

Rest(e) == [editor[e] EXCEPT !.op = "ready", !.sent = {}, !.replaced = {}]

\* After an error ContestProblemsEditor shows nothing else, ClassManager goes on.
Failed(e) == IF kind = "contest" THEN Closed ELSE Rest(e)

\* deleteMany(): in the class's transaction it is not seen yet.
DeleteRows(e) ==
  LET p == [editor[e] EXCEPT !.op = "create"] IN
  /\ editor[e].op = "delete"
  /\ IF kind = "contest" THEN chosen' = {} /\ AfterWrite(e, p)
     ELSE chosen' = chosen /\ Becomes(e, [p EXCEPT !.replaced = chosen])
  /\ UNCHANGED <<kind, phase, visible, contestOnly, exists, meant>>

\* createMany() inserts all, unless a row is there already or a problem is gone.
Left_All(e) == chosen

Left(e) == IF kind = "contest" THEN chosen ELSE chosen \ editor[e].replaced

Insertable(e) == editor[e].sent \subseteq exists \ Left(e)

\* What a save cannot know, and so drops or keeps without anybody's tick.
Unaware(e) == editor[e].unaware \/ ~(meant \subseteq editor[e].listed)

CreateRows(e) ==
  LET sent == editor[e].sent
      shown == editor[e].shown
  IN
  /\ editor[e].op = "create" /\ Insertable(e)
  /\ chosen' = Left(e) \cup sent
  /\ meant' = IF Unaware(e) THEN chosen' ELSE (meant \cup sent) \ (shown \ sent)
  /\ AfterWrite(e, [Rest(e) EXCEPT !.shown = sent, !.unaware = (Left(e) # {})])
  /\ UNCHANGED <<kind, phase, visible, contestOnly, exists>>

\* An error, or the server dies: a contest keeps what was deleted deleted.
SaveFails(e) ==
  /\ editor[e].op \in {"delete", "create"}
  /\ Becomes(e, Failed(e))
  /\ meant' = IF kind = "contest" /\ editor[e].op = "create" THEN chosen ELSE meant
  /\ UNCHANGED <<kind, phase, visible, contestOnly, exists, chosen>>

SetsNext ==
  \/ \E e \in Editor :
       \/ Open(e) \/ ReadDetail(e) \/ ReadList(e) \/ Show(e) \/ Save(e)
       \/ CloseEditor(e) \/ DeleteRows(e) \/ CreateRows(e) \/ SaveFails(e)
  \/ PassTime \/ DeleteProblem \/ SetContestOnly

SetsSpec == SetsInit /\ [][SetsNext]_setVars

-----------------------------------------------------------------------------
(* Properties.                                                             *)

\* While no save of a contest is half done, the stored problems are those the administrators
\* ticked and did not untick.  Only these saves reset the account: of a page that was opened
\* before the start, or is a class's and has not saved before; of one that another page's
\* save has outdated; of one whose list leaves a chosen problem out; and one that failed
\* between the contest's two writes.
MeantIsStored ==
  ~(kind = "contest" /\ \E e \in Editor : editor[e].op = "create") => chosen = meant
=============================================================================
