---------------------------- MODULE ClubCalendar ----------------------------
(***************************************************************************)
(* The club's calendar: ClubSchedulesService, and one page of a manager on *)
(* it, either calendar.js of the home page or ClubCalendarPage of the OJ,  *)
(* which is its port.                                                      *)
(*                                                                         *)
(* The page shows one month.  Every change of the month and every finished *)
(* operation asks for the list again; a counter lets only the newest       *)
(* request set it.  calendar.js reads the visible month and the edited     *)
(* schedule when an answer has arrived, React's handlers as they were when *)
(* the button was pressed.                                                 *)
(***************************************************************************)
EXTENDS Naturals, FiniteSets

CONSTANTS
  Schedule,    \* rows of clubSchedule
  Month,       \* months a schedule may lie in and a page may show
  Task,        \* requests of the page in flight
  MaxVersion,  \* bound: writes to one schedule
  Nothing      \* no list, no schedule being edited

ASSUME ClubCalendarAssumption == MaxVersion \in Nat /\ Nothing \notin Schedule

VARIABLES
  kind,      \* which page it is: "home" or "oj"
  schedules, \* the rows
  page,      \* the month in view, the list on the screen, the schedule being edited
  task,      \* the requests in flight
  mine,      \* history: the last version of each schedule this page made public or changed
  strayed    \* history: "month" after a reload for a month no longer in view, "edit" after
             \* a saved edit that was not followed by a reload

calendarVars == <<kind, schedules, page, task, mine, strayed>>

\* ver counts the writes to a row.
Row == [status : {"NONE", "PENDING", "APPROVED", "REJECTED", "DELETED"}, month : Month,
        ver : 0..MaxVersion]
Listing == [of : Month, rows : [Schedule -> Row]]
Operation == {"propose", "update", "approve", "reject", "remove"}

NoTask == [op |-> "none"]
\* month, editing: what the handler's closure captured, the latter as whether it is s.
Click == [op : Operation, s : Schedule, month : Month, editing : BOOLEAN]
Tasks ==
       {NoTask}
  \cup [op : {"load"}, of : Month, newest : BOOLEAN]
  \cup [op : {"loaded"}, list : Listing, newest : BOOLEAN]
  \cup [op : {"click", "done", "failed", "pending"}, click : Click]

CalendarTypeOK ==
  /\ kind \in {"home", "oj"}
  /\ schedules \in [Schedule -> Row]
  /\ page.month \in Month
  /\ page.list \in Listing \cup {Nothing}
  /\ page.editing \in Schedule \cup {Nothing}
  /\ task \in [Task -> Tasks]
  /\ mine \in [Schedule -> 0..MaxVersion]
  /\ strayed \in SUBSET {"month", "edit"}

CalendarInit ==
  /\ kind \in {"home", "oj"}
  /\ schedules \in [Schedule -> [status : {"NONE", "PENDING"}, month : Month, ver : {0}]]
  /\ \E t \in Task, m \in Month :
       /\ page = [month |-> m, list |-> Nothing, editing |-> Nothing]
       /\ task = [u \in Task |-> IF u = t THEN [op |-> "load", of |-> m, newest |-> TRUE]
                                 ELSE NoTask]
  /\ mine = [s \in Schedule |-> 0]
  /\ strayed = {}

-----------------------------------------------------------------------------
(* The service: one statement per request, after the roles are checked.    *)

Exists(s) == schedules[s].status \notin {"NONE", "DELETED"}

\* approve(), reject(): updateMany where the row is still PENDING.
Reviewable(s) == schedules[s].status = "PENDING"

Admitted(op, s) ==
  CASE op = "propose" -> schedules[s].status = "NONE"
    [] op \in {"update", "remove"} -> Exists(s)
    [] op \in {"approve", "reject"} -> Reviewable(s)

\* The row after op; an update keeps the status, whatever it is, and may move the dates.
Result(op, s, m) ==
  [status |-> CASE op = "propose" -> "PENDING"
                [] op = "approve" -> "APPROVED"
                [] op = "reject" -> "REJECTED"
                [] op = "remove" -> "DELETED"
                [] OTHER -> schedules[s].status,
   month |-> IF op \in {"propose", "update"} THEN m ELSE schedules[s].month,
   ver |-> schedules[s].ver + 1]

Serve(op, s, m) ==
  /\ Admitted(op, s)
  /\ schedules[s].ver < MaxVersion
  /\ schedules' = [schedules EXCEPT ![s] = Result(op, s, m)]

\* Somebody else, on another page.
Elsewhere ==
  /\ \E op \in Operation, s \in Schedule, m \in Month : Serve(op, s, m)
  /\ UNCHANGED <<kind, page, task, mine, strayed>>

-----------------------------------------------------------------------------
(* loadSchedules()                                                         *)

\* A new request makes all those before it stale.
Load(t, m) ==
  [u \in Task |->
     IF u = t THEN [op |-> "load", of |-> m, newest |-> TRUE]
     ELSE IF task[u].op \in {"load", "loaded"} THEN [task[u] EXCEPT !.newest = FALSE]
     ELSE task[u]]

\* calendar.js takes the list off the screen when it asks for another, React's page does not.
WhileLoading == IF kind = "home" THEN Nothing ELSE page.list

\* The previous, the next or the present month.
Turn(t) ==
  /\ task[t] = NoTask
  /\ \E m \in Month : /\ page' = [month |-> m, list |-> WhileLoading, editing |-> page.editing]
                     /\ task' = Load(t, m)
  /\ strayed' = {}
  /\ UNCHANGED <<kind, schedules, mine>>

ReadList(t) ==
  /\ task[t].op = "load"
  /\ task' = [task EXCEPT ![t] = [op |-> "loaded", newest |-> @.newest,
                                  list |-> [of |-> @.of, rows |-> schedules]]]
  /\ UNCHANGED <<kind, schedules, page, mine, strayed>>

Newest_Any(t) == TRUE

Newest(t) == task[t].newest

\* The answer arrives, or an error, which empties the list.
ShowList(t) ==
  /\ task[t].op \in {"load", "loaded"}
  /\ IF ~Newest(t) THEN page' = page
     ELSE \/ page' = [page EXCEPT !.list = Nothing]
          \/ task[t].op = "loaded" /\ page' = [page EXCEPT !.list = task[t].list]
  /\ task' = [task EXCEPT ![t] = NoTask]
  /\ UNCHANGED <<kind, schedules, mine, strayed>>

-----------------------------------------------------------------------------
(* The manager's operations.                                               *)

\* The buttons of a schedule are on its card.
Visible(s) ==
  /\ page.list # Nothing
  /\ page.list.rows[s].status = "APPROVED" /\ page.list.rows[s].month = page.list.of

BeginEdit ==
  /\ \E s \in Schedule : Visible(s) /\ page' = [page EXCEPT !.editing = s]
  /\ UNCHANGED <<kind, schedules, task, mine, strayed>>

\* editCancel
CancelEdit ==
  /\ page.editing # Nothing
  /\ page' = [page EXCEPT !.editing = Nothing]
  /\ UNCHANGED <<kind, schedules, task, mine, strayed>>

\* A form sends one request at a time; it updates what is being edited, or proposes.
PressButton(t) ==
  /\ task[t] = NoTask
  /\ \E op \in Operation, s \in Schedule :
       /\ op \in {"propose", "update"} =>
            /\ \A u \in Task : task[u].op \in {"click", "done", "failed"} =>
                 task[u].click.op \notin {"propose", "update"}
            /\ IF op = "update" THEN page.editing = s ELSE page.editing = Nothing
       /\ op = "remove" => Visible(s)
       /\ task' = [task EXCEPT ![t] =
            [op |-> "click", click |-> [op |-> op, s |-> s, month |-> page.month,
                                        editing |-> page.editing = s]]]
  /\ UNCHANGED <<kind, schedules, page, mine, strayed>>

\* The request reaches the service; the dates of the form are any month.
Reach(t) ==
  /\ task[t].op = "click"
  /\ LET c == task[t].click IN
     \/ \E m \in Month :
          /\ Serve(c.op, c.s, m)
          /\ mine' = IF c.op \in {"update", "approve", "remove"}
                     THEN [mine EXCEPT ![c.s] = schedules[c.s].ver + 1] ELSE mine
          /\ task' = [task EXCEPT ![t] = [op |-> "done", click |-> c]]
     \/ /\ task' = [task EXCEPT ![t] = [op |-> "failed", click |-> c]]
        /\ UNCHANGED <<schedules, mine>>
  /\ UNCHANGED <<kind, page, strayed>>

\* The reload after an operation: of the month in view, or of the one its closure holds.
ReloadMonth(c) == IF kind = "home" THEN page.month ELSE c.month

Reload(t, c, editing) ==
  /\ page' = [month |-> page.month, list |-> WhileLoading, editing |-> editing]
  /\ task' = Load(t, ReloadMonth(c))
  /\ strayed' = IF ReloadMonth(c) # page.month THEN {"month"} ELSE {}

WasEditing(c) == IF kind = "home" THEN page.editing # Nothing ELSE c.editing

\* submitProposal() and onSubmitProposal(): the form is emptied, whoever edits by now.
Saved(t) ==
  LET c == task[t].click IN
  /\ task[t].op = "done" /\ c.op \in {"propose", "update"}
  /\ IF WasEditing(c) THEN Reload(t, c, Nothing)
     ELSE /\ page' = [page EXCEPT !.editing = Nothing]
          /\ task' = [task EXCEPT ![t] = NoTask]
          /\ strayed' = IF c.op = "update" THEN strayed \cup {"edit"} ELSE strayed
  /\ UNCHANGED <<kind, schedules, mine>>

Removed(t) ==
  LET c == task[t].click
      empties == IF kind = "home" THEN page.editing = c.s ELSE c.editing
  IN
  /\ task[t].op = "done" /\ c.op = "remove"
  /\ Reload(t, c, IF empties THEN Nothing ELSE page.editing)
  /\ UNCHANGED <<kind, schedules, mine>>

\* The list of pending schedules is loaded, and awaited, before the calendar.
Reviewed(t) ==
  LET c == task[t].click IN
  /\ task[t].op = "done" /\ c.op \in {"approve", "reject"}
  /\ task' = [task EXCEPT ![t] = [@ EXCEPT !.op = "pending"]]
  /\ UNCHANGED <<kind, schedules, page, mine, strayed>>

PendingShown(t) ==
  LET c == task[t].click IN
  /\ task[t].op = "pending"
  /\ IF c.op = "approve" THEN Reload(t, c, page.editing)
     ELSE task' = [task EXCEPT ![t] = NoTask] /\ UNCHANGED <<page, strayed>>
  /\ UNCHANGED <<kind, schedules, mine>>

Refused(t) ==
  /\ task[t].op = "failed"
  /\ task' = [task EXCEPT ![t] = NoTask]
  /\ UNCHANGED <<kind, schedules, page, mine, strayed>>

CalendarNext ==
  \/ \E t \in Task : \/ Turn(t) \/ ReadList(t) \/ ShowList(t) \/ PressButton(t) \/ Reach(t)
                     \/ Saved(t) \/ Removed(t) \/ Reviewed(t) \/ PendingShown(t) \/ Refused(t)
  \/ Elsewhere \/ BeginEdit \/ CancelEdit

CalendarSpec == CalendarInit /\ [][CalendarNext]_calendarVars

-----------------------------------------------------------------------------
(* Properties.                                                             *)

Idle == \A t \in Task : task[t] = NoTask

\* A page at rest shows the month it names, whatever order the answers came in.  On the
\* OJ's page, and only there, this fails after an operation pressed under another month.
ListIsOfItsMonth ==
  Idle /\ page.list # Nothing /\ ~(kind = "oj" /\ "month" \in strayed)
    => page.list.of = page.month

\* A page at rest shows no schedule as it was before the page's own last write to it.  On
\* the home page, and only there, this fails after an edit whose form was cancelled, or
\* turned to a proposal, while it was being saved.
OwnWritesShow ==
  Idle /\ page.list # Nothing /\ ~(kind = "home" /\ "edit" \in strayed)
    => \A s \in Schedule : page.list.rows[s].ver >= mine[s]
=============================================================================
