----------------------------- MODULE ProblemDraft ------------------------------
(***************************************************************************)
(* How one author's problem is written: NewProblemPage in up to two tabs   *)
(* of a browser, the copy it keeps there while the problem is new, and the *)
(* drafts on the server that it creates, loads, changes and hands in.      *)
(*                                                                         *)
(* A link to another page of the site only unmounts the page: the handler  *)
(* of its button goes on with its requests, forgets the copy and takes its *)
(* tab along in the end, whatever the tab shows by then.                   *)
(*                                                                         *)
(* A request and its answer are one step: what another tab does between    *)
(* them, it may as well do before or after.                                *)
(***************************************************************************)
EXTENDS Naturals, FiniteSets

CONSTANTS
  Tab,        \* tabs of the author's browser
  MaxDraft,   \* bound: problems created
  MaxKeys,    \* bound: changes of a form
  MaxVisits,  \* bound: openings of the page
  MaxSaves    \* bound: presses of its two buttons

ASSUME DraftAssumption ==
  MaxDraft \in Nat /\ MaxKeys \in Nat /\ MaxVisits \in Nat /\ MaxSaves \in Nat

VARIABLES
  admin,   \* the author is an administrator
  copy,    \* localStorage, oj_problem_draft
  drafts,  \* the problems on the server
  tab,     \* the page in each tab
  left,    \* the handlers in each tab whose page has been left
  keys, visits, saves,  \* how much of each has happened
  loose    \* history: something DraftsHold excuses has happened to the browser's copy

draftVars == <<admin, copy, drafts, tab, left, keys, visits, saves, loose>>

\* The settings and the statement count as one text, the test cases as another.
Form == [text : 0..MaxKeys, cases : 0..MaxKeys, only : BOOLEAN]
Empty == [text |-> 0, cases |-> 0, only |-> FALSE]

\* Draft 0 is none: no draftId, no ?resume.
DraftId == 0..MaxDraft
Stage == {"none", "create", "patch", "put", "post", "publish", "verify"}
\* The handler of press n.  body: the form when the button was pressed; submit: which button
\* it was; goes: its page has not been closed or loaded anew, so that more follows its request.
Job == [stage : Stage, submit : BOOLEAN, publish : BOOLEAN, body : Form, id : DraftId,
        n : 0..MaxSaves, goes : BOOLEAN]
Loading == [stage : {"none", "problem", "cases"}, text : 0..MaxKeys]
NoJob == [stage |-> "none", submit |-> FALSE, publish |-> FALSE, body |-> Empty, id |-> 0,
          n |-> 0, goes |-> FALSE]
NotLoading == [stage |-> "none", text |-> 0]

\* restored: the form was taken from the browser's copy; notice: "saved" is on the screen;
\* told, kept: the draft and the form it speaks of; alone: no other handler has written that
\* draft since the button was pressed.
Away == [at |-> "away", resume |-> 0, draft |-> 0, form |-> Empty, timer |-> FALSE,
         job |-> NoJob, load |-> NotLoading, restored |-> FALSE, notice |-> FALSE,
         told |-> 0, kept |-> Empty, alone |-> FALSE]

ProblemDraftTypeOK ==
  /\ admin \in BOOLEAN
  /\ copy \in Form
  /\ drafts \in [1..MaxDraft -> [state : {"none", "draft", "posted"}, text : 0..MaxKeys,
                                 cases : 0..MaxKeys, only : BOOLEAN]]
  /\ tab \in [Tab -> [at : {"away", "own", "admin"}, resume : DraftId, draft : DraftId,
                      form : Form, timer : BOOLEAN, job : Job, load : Loading,
                      restored : BOOLEAN, notice : BOOLEAN, told : DraftId, kept : Form,
                      alone : BOOLEAN]]
  /\ left \in [Tab -> SUBSET Job]
  /\ keys \in 0..MaxKeys /\ visits \in 0..MaxVisits /\ saves \in 0..MaxSaves
  /\ loose \in BOOLEAN

\* The author may have a draft from before.
ProblemDraftInit ==
  /\ admin \in BOOLEAN
  /\ copy = Empty
  /\ keys \in {0, 1} \cap 0..MaxKeys
  /\ drafts = [d \in 1..MaxDraft |->
                 [state |-> IF d <= keys THEN "draft" ELSE "none", text |-> IF d <= keys THEN d ELSE 0,
                  cases |-> 0, only |-> FALSE]]
  /\ tab = [t \in Tab |-> Away]
  /\ left = [t \in Tab |-> {}]
  /\ visits = 0 /\ saves = 0
  /\ loose = FALSE

Here(t) == tab[t].at # "away"
InTab(t, r) == tab' = [tab EXCEPT ![t] = r]

\* The handler of a page, if it has one.
HandlerOf(r) == {r.job} \ {NoJob}
Handlers(t) == left[t] \cup HandlerOf(tab[t])

Creates(j) == j.stage \in {"create", "post"}

\* A tab with a problem the server does not know, or that it is being sent.
NewTab(t) == Here(t) /\ tab[t].resume = 0
Creating(t) == NewTab(t) \/ \E j \in Handlers(t) : Creates(j)

-----------------------------------------------------------------------------
(* The page comes and goes.                                                *)

\* Without ?resume the form starts from the browser's copy c, unless that has test cases alone,
\* and the effect starts its timer; with it, from the server's draft.
Mounted(at, resume, c) ==
  [Away EXCEPT !.at = at, !.resume = resume,
               !.restored = (resume = 0 /\ c.text # 0),
               !.form = IF resume = 0 /\ c.text # 0 THEN c ELSE Empty,
               !.timer = (resume = 0),
               !.load.stage = IF resume = 0 THEN "none" ELSE "problem"]

\* A link, a draft of the author's own problems.
Visit(t) ==
  /\ ~Here(t) /\ visits < MaxVisits
  /\ \E at \in {"own", "admin"}, d \in DraftId :
       /\ at = "admin" => admin /\ d = 0
       /\ d # 0 => drafts[d].state = "draft"
       /\ InTab(t, Mounted(at, d, copy))
       /\ loose' = (loose \/ (d = 0 /\ \E u \in Tab \ {t} : Creating(u)))
  /\ visits' = visits + 1
  /\ UNCHANGED <<admin, copy, drafts, left, keys, saves>>

\* A link to another page: the timer and the answer to a load are dropped, nothing else.
Leave(t) ==
  /\ Here(t)
  /\ InTab(t, Away)
  /\ left' = [left EXCEPT ![t] = Handlers(t)]
  /\ UNCHANGED <<admin, copy, drafts, keys, visits, saves, loose>>

\* What remains of the handlers of a document is the request that is out.
Cut(t) == {[j EXCEPT !.goes = FALSE] : j \in Handlers(t)}

\* The tab is closed, or what it shows is loaded anew.
Close(t) ==
  /\ Here(t) \/ left[t] # Cut(t)
  /\ InTab(t, Away)
  /\ left' = [left EXCEPT ![t] = Cut(t)]
  /\ UNCHANGED <<admin, copy, drafts, keys, visits, saves, loose>>

\* discardDraft(): the copy goes and the page is loaded anew.
Discard(t) ==
  /\ Here(t) /\ tab[t].restored
  /\ copy' = Empty
  /\ InTab(t, Mounted(tab[t].at, tab[t].resume, Empty))
  /\ left' = [left EXCEPT ![t] = Cut(t)]
  /\ UNCHANGED <<admin, drafts, keys, visits, saves, loose>>

-----------------------------------------------------------------------------
(* The form.                                                               *)

\* Every change starts the timer again, unless the server has the draft.
Key(t) ==
  /\ Here(t) /\ keys < MaxKeys
  /\ \E f \in {[tab[t].form EXCEPT !.text = keys + 1], [tab[t].form EXCEPT !.cases = keys + 1]}
            \cup (IF admin THEN {[tab[t].form EXCEPT !.only = ~@]} ELSE {}) :
       InTab(t, [tab[t] EXCEPT !.form = f, !.timer = (tab[t].draft = 0 /\ tab[t].resume = 0)])
  /\ keys' = keys + 1
  /\ UNCHANGED <<admin, copy, drafts, left, visits, saves, loose>>

\* A second without a change; a copy too large for the storage is given up.
TimerFires(t) ==
  /\ Here(t) /\ tab[t].timer
  /\ InTab(t, [tab[t] EXCEPT !.timer = FALSE])
  /\ copy' \in {copy, tab[t].form}
  /\ UNCHANGED <<admin, drafts, left, keys, visits, saves, loose>>

\* Two requests; what comes back replaces the form, whatever has been typed since.  The box
\* "contest only" is not among what comes back.
LoadDraft(t) ==
  LET r == tab[t] IN
  /\ Here(t) /\ r.load.stage # "none"
  /\ \/ InTab(t, [r EXCEPT !.load = NotLoading])
     \/ /\ r.load.stage = "problem"
        /\ InTab(t, [r EXCEPT !.load = [stage |-> "cases", text |-> drafts[r.resume].text]])
     \/ /\ r.load.stage = "cases"
        /\ InTab(t, [r EXCEPT !.load = NotLoading, !.draft = r.resume,
                              !.form.text = r.load.text,
                              !.form.cases = drafts[r.resume].cases])
  /\ UNCHANGED <<admin, copy, drafts, left, keys, visits, saves, loose>>

-----------------------------------------------------------------------------
(* The two buttons, which both wait for what either has started.           *)

\* onSaveDraft() asks for a title and takes the old notice down.
SaveDraft(t) ==
  LET r == tab[t] IN
  /\ Here(t) /\ r.job = NoJob /\ saves < MaxSaves /\ r.form.text # 0
  /\ InTab(t, [r EXCEPT !.notice = FALSE, !.told = r.draft, !.kept = Empty, !.alone = TRUE,
                  !.job = [stage |-> IF r.draft = 0 THEN "create" ELSE "patch", submit |-> FALSE,
                           publish |-> FALSE, body |-> r.form, id |-> r.draft,
                           n |-> saves + 1, goes |-> TRUE]])
  /\ saves' = saves + 1
  /\ UNCHANGED <<admin, copy, drafts, left, keys, visits, loose>>

\* onSubmit(): a draft is saved first and then handed in, a new problem created outright.
\* The notice of an earlier save stays and no longer means anything.
Submit(t) ==
  LET r == tab[t] IN
  /\ Here(t) /\ r.job = NoJob /\ saves < MaxSaves /\ r.form.text # 0
  /\ \E publish \in {FALSE, admin} :
       InTab(t, [r EXCEPT !.told = 0, !.kept = Empty, !.alone = FALSE,
                  !.job = [stage |-> IF r.draft = 0 THEN "post" ELSE "patch", submit |-> TRUE,
                           publish |-> publish, body |-> r.form, id |-> r.draft,
                           n |-> saves + 1, goes |-> TRUE]])
  /\ saves' = saves + 1
  /\ UNCHANGED <<admin, copy, drafts, left, keys, visits, loose>>

-----------------------------------------------------------------------------
(* What the server does.                                                   *)

Unused == {d \in 1..MaxDraft : drafts[d].state = "none"}
NextId == CHOOSE d \in Unused : TRUE

\* The draft a request is about.
About(j) == IF Creates(j) THEN NextId ELSE j.id

\* update(), syncTestCases(), createDraft(), create(), publish(), verifyAndSubmitForReview()
Effect(j) ==
  LET only == admin /\ j.body.only IN
  CASE Creates(j) ->
         [state |-> IF j.stage = "post" THEN "posted" ELSE "draft", text |-> j.body.text,
          cases |-> j.body.cases, only |-> only]
    [] j.stage = "patch" ->
         [drafts[j.id] EXCEPT !.text = j.body.text, !.only = IF admin THEN j.body.only ELSE @]
    [] j.stage = "put" -> [drafts[j.id] EXCEPT !.cases = j.body.cases]
    [] OTHER -> [drafts[j.id] EXCEPT !.state = "posted"]

\* The address, which belongs to the text, is unique.
Admits(j) == Creates(j) => Unused # {} /\ \A d \in 1..MaxDraft : drafts[d].text # j.body.text

\* The request is carried out or not.
Serve(j, done) ==
  /\ done => Admits(j)
  /\ drafts' = IF done THEN [drafts EXCEPT ![About(j)] = Effect(j)] ELSE drafts

\* A page that waits for a save of draft id, or says that it is saved, is no longer alone
\* with it once another handler has written it.
Noted(id, done) ==
  [u \in Tab |-> IF done /\ tab[u].told = id THEN [tab[u] EXCEPT !.alone = FALSE] ELSE tab[u]]

-----------------------------------------------------------------------------
(* What a handler does with the answer.                                    *)

\* The test cases have yet to follow the text.
Halfway_Submit(j) == j.stage = "patch" /\ j.submit
Halfway(j) == j.stage = "patch"

\* The request that follows the one about draft id.
After(j, id) ==
  CASE Halfway(j) -> [j EXCEPT !.stage = "put"]
    [] j.stage = "put" /\ j.submit /\ (j.publish \/ ~admin) ->
         [j EXCEPT !.stage = IF admin THEN "publish" ELSE "verify", !.body = Empty]
    [] j.stage = "post" /\ j.publish -> [j EXCEPT !.stage = "publish", !.id = id, !.body = Empty]
    [] OTHER -> NoJob

\* localStorage.removeItem()
Forgets(j) == Creates(j) \/ (j.stage = "put" /\ j.submit)

\* navigate() to another page is the last step of onSubmit().
Leaves(j, id) == j.submit /\ After(j, id) = NoJob

\* navigate() to a draft just created: the page of its route stays as it is and loads the
\* draft, any other page makes way for it.
Resumed(r, id) ==
  IF r.at = "own"
  THEN [r EXCEPT !.resume = id, !.timer = FALSE, !.load = [stage |-> "problem", text |-> 0]]
  ELSE Mounted("own", id, Empty)

\* The page whose handler has the answer.
Answered(r, j, id) ==
  CASE j.stage = "create" /\ r.at = "own" ->
         [Resumed(r, id) EXCEPT !.draft = id, !.job = NoJob, !.notice = TRUE, !.told = id, !.kept = j.body]
    [] j.stage = "create" /\ r.at # "own" -> Resumed(r, id)
    [] Leaves(j, id) -> Away
    [] ~Creates(j) /\ ~j.submit /\ ~Halfway(j) -> [r EXCEPT !.job = NoJob, !.notice = TRUE, !.kept = j.body]
    [] OTHER -> [r EXCEPT !.job = After(j, id)]

\* The page that is in the tab when a handler left behind has the answer.
Overtaken(r, j, id) ==
  CASE j.stage = "create" -> Resumed(r, id)
    [] Leaves(j, id) -> Away
    [] OTHER -> r

\* The problem is stored and the copy may come to hold it: nobody heard that it is, or the
\* page goes on until it is published.
Loosens(j, done, heard) == Creates(j) /\ done /\ (~heard \/ (j.stage = "post" /\ j.publish))

\* The handler of the page in tab t.
Carry(t) ==
  LET r == tab[t]
      j == r.job
      id == About(j)
  IN
  /\ j # NoJob
  /\ \E done, heard \in BOOLEAN :
       /\ heard => done
       /\ Serve(j, done)
       /\ tab' = [Noted(id, done) EXCEPT ![t] =
                    IF heard THEN Answered(r, j, id) ELSE [r EXCEPT !.job = NoJob, !.alone = FALSE]]
       /\ copy' = IF heard /\ Forgets(j) THEN Empty ELSE copy
       /\ loose' = (loose \/ Loosens(j, done, heard))
  /\ UNCHANGED <<admin, left, keys, visits, saves>>

\* A handler whose page has been left: it goes on as if the page were there, and takes the tab
\* along; another page that has to go leaves its own handler behind.
CarryOn(t, j) ==
  LET id == About(j) IN
  \E done, heard \in BOOLEAN :
    LET r == Noted(id, done)[t]
        p == IF heard THEN Overtaken(r, j, id) ELSE r
    IN
    /\ heard => done /\ j.goes
    /\ Serve(j, done)
    /\ tab' = [Noted(id, done) EXCEPT ![t] = p]
    /\ left' = [left EXCEPT ![t] = (@ \ {j}) \cup (IF heard THEN {After(j, id)} \ {NoJob} ELSE {})
                                             \cup (HandlerOf(r) \ HandlerOf(p))]
    /\ copy' = IF heard /\ Forgets(j) THEN Empty ELSE copy
    /\ loose' = (loose \/ Loosens(j, done, heard))
    /\ UNCHANGED <<admin, keys, visits, saves>>

ProblemDraftNext ==
  \E t \in Tab : \/ Visit(t) \/ Leave(t) \/ Close(t) \/ Discard(t) \/ Key(t) \/ TimerFires(t)
                 \/ LoadDraft(t) \/ SaveDraft(t) \/ Submit(t) \/ Carry(t)
                 \/ \E j \in left[t] : CarryOn(t, j)

ProblemDraftSpec == ProblemDraftInit /\ [][ProblemDraftNext]_draftVars

-----------------------------------------------------------------------------
(* Properties.                                                             *)

\* "Saved" means that the server has the text and the test cases of one and the same form,
\* the one for which the button was pressed, until another handler writes the draft: that of
\* another tab, or of a page that was left while it saved.
SavedMeansStored ==
  \A t \in Tab :
    tab[t].notice /\ tab[t].alone =>
      /\ drafts[tab[t].told].text = tab[t].kept.text
      /\ drafts[tab[t].told].cases = tab[t].kept.cases

\* What the page offers to continue is not a problem the server has already.
CopyIsUnsaved ==
  copy # Empty =>
    \A d \in 1..MaxDraft :
      drafts[d].state # "none" => \E f \in {"text", "cases", "only"} : copy[f] # drafts[d][f]

\* Nothing typed is told to be kept where it is not, and nothing kept is offered twice, but
\* for two tabs at once, an answer nobody was there to hear, and the timer of the page that
\* waits for a problem it has created to be published.
DraftsHold == SavedMeansStored /\ (loose \/ CopyIsUnsaved)
=============================================================================
