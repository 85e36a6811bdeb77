----------------------------- MODULE ExamScopes ------------------------------
(***************************************************************************)
(* The subjects of an exam and what each covers: ExamScopesService and the *)
(* page of its one editor, exam-scope.js of the home page or ExamScopePage *)
(* of the OJ.                                                              *)
(*                                                                         *)
(* The OJ's page loads the list again after every change.  The home page   *)
(* changes the objects of its list and their places itself, so it has to   *)
(* arrive where the service's sort by displayOrder and subject would.      *)
(***************************************************************************)
EXTENDS Naturals, FiniteSets, Sequences
Lists == INSTANCE SequencesExt

CONSTANTS
  Subject,    \* rows of exam_scopes
  Call,       \* requests of the page in flight
  MaxOrder,   \* bound: displayOrder
  MaxName,    \* bound: names of subjects, in the order of the alphabet
  MaxCopy,    \* bound: answers whose objects are still in use
  MaxPresses  \* bound: presses of a button

ASSUME ExamScopesAssumption ==
  /\ IsFiniteSet(Subject)
  /\ MaxOrder \in Nat /\ MaxName \in Nat \ {0} /\ MaxCopy \in Nat /\ MaxPresses \in Nat

VARIABLES
  site,    \* which page it is: "home" or "oj"
  scopes,  \* the rows
  objects, \* the objects a page holds, by the answer they came with
  view,    \* the exam selected, the list of objects, what is on the screen
  call,    \* the requests in flight
  presses, \* how often the editor pressed a button
  slipped  \* history: since the list came, something ShownIsStored excuses has happened

examVars == <<site, scopes, objects, view, call, presses, slipped>>

Exam == {"MIDTERM", "FINAL"}
Value == [name : 1..MaxName, order : 0..MaxOrder, text : {0, 1}]
Object == [copy : 1..MaxCopy, of : Subject]

NoCall == [op |-> "none"]
\* order: what create() read; fresh: no newer request or write overtook this answer, and the
\* list still is the one in which a button was pressed.
LoadCall == [op : {"load"}, exam : Exam, fresh : BOOLEAN]
LoadedCall == [op : {"loaded"}, exam : Exam, fresh : BOOLEAN, rows : Seq(Subject \X Value)]
EditCall == [op : {"edit", "edited"}, exam : Exam, fresh : BOOLEAN, item : Object, to : Value,
             field : {"name", "text"}]
MoveCall == [op : {"move", "half", "moved"}, exam : Exam, fresh : BOOLEAN, item : Object,
             other : Object, i : 1..(MaxOrder + 1), j : 1..(MaxOrder + 1),
             a : 0..MaxOrder, b : 0..MaxOrder, tied : BOOLEAN]
AddCall == [op : {"add", "place", "added"}, exam : Exam, name : 1..MaxName, order : 0..MaxOrder]
FailedCall == [op : {"failed"}]
Calls == {NoCall} \cup LoadCall \cup LoadedCall \cup EditCall \cup MoveCall \cup AddCall \cup FailedCall

ExamTypeOK ==
  /\ site \in {"home", "oj"}
  /\ scopes \in [Subject -> [exam : Exam \cup {"NONE"}, val : Value]]
  /\ objects \in [1..MaxCopy -> [Subject -> Value]]
  /\ view \in [exam : Exam, list : Seq(Object), known : BOOLEAN,
               shown : {"loading", "list", "error"}]
  /\ call \in [Call -> Calls]
  /\ presses \in 0..MaxPresses
  /\ slipped \in BOOLEAN

Blank == [name |-> 1, order |-> 0, text |-> 0]

\* The seed numbers the subjects of each exam from 1.
ExamInit ==
  /\ site \in {"home", "oj"}
  /\ scopes \in [Subject -> [exam : Exam \cup {"NONE"}, val : {v \in Value : v.text = 0}]]
  /\ \A s \in Subject :
       IF scopes[s].exam = "NONE" THEN scopes[s].val = Blank
       ELSE LET before == {q \in Subject : scopes[q].exam = scopes[s].exam
                                            /\ scopes[q].val.order < scopes[s].val.order}
            IN scopes[s].val.order = Cardinality(before) + 1
  /\ \A s, q \in Subject : s # q /\ scopes[s].exam = scopes[q].exam /\ scopes[s].exam # "NONE" =>
       scopes[s].val.name # scopes[q].val.name /\ scopes[s].val.order # scopes[q].val.order
  /\ objects = [c \in 1..MaxCopy |-> [s \in Subject |-> Blank]]
  /\ view = [exam |-> "MIDTERM", list |-> <<>>, known |-> FALSE, shown |-> "loading"]
  /\ \E c \in Call :
       call = [d \in Call |-> IF d = c THEN [op |-> "load", exam |-> "MIDTERM", fresh |-> TRUE]
                              ELSE NoCall]
  /\ presses = 0
  /\ slipped = FALSE

-----------------------------------------------------------------------------
(* The service.                                                            *)

Of(x) == {s \in Subject : scopes[s].exam = x}

\* orderBy: displayOrder, then subject.
Precedes(s, q) ==
  LET v == scopes[s].val
      w == scopes[q].val
  IN v.order < w.order \/ (v.order = w.order /\ v.name < w.name)

\* What list() answers: each subject of x with its values, in that order.
IsStored(rows, x) ==
  /\ {rows[i][1] : i \in DOMAIN rows} = Of(x)
  /\ \A i \in DOMAIN rows : rows[i][2] = scopes[rows[i][1]].val
  /\ \A i, j \in DOMAIN rows : i < j => Precedes(rows[i][1], rows[j][1])

\* The unique index on the subjects of an exam, which the checks before a write only foretell.
Taken(x, name, but) == \E s \in Of(x) \ but : scopes[s].val.name = name

IsLastOrder(n, x) ==
  IF Of(x) = {} THEN n = 0
  ELSE /\ \E s \in Of(x) : scopes[s].val.order = n
       /\ \A s \in Of(x) : scopes[s].val.order <= n

-----------------------------------------------------------------------------
(* The page's objects and requests.                                        *)

Get(o) == objects[o.copy][o.of]

Edits == {"edit", "edited"}
Moves == {"move", "half", "moved"}

\* The copies that a list or a request refers to; the others hold nothing.
Held(list, calls) ==
  {list[i].copy : i \in DOMAIN list}
  \cup {calls[c].item.copy : c \in {d \in Call : calls[d].op \in Edits \cup Moves}}
  \cup {calls[c].other.copy : c \in {d \in Call : calls[d].op \in Moves}}

Collected(heap, list, calls) ==
  [k \in 1..MaxCopy |-> IF k \in Held(list, calls) THEN heap[k] ELSE [s \in Subject |-> Blank]]

\* Request c goes on to next, and those at one of ops are no longer fresh.
Overtaking(c, next, ops) ==
  [d \in Call |-> IF d = c THEN next
                  ELSE IF call[d].op \in ops THEN [call[d] EXCEPT !.fresh = FALSE]
                  ELSE call[d]]

\* A newer request makes the loads before it stale, a write every answer on its way; two moves
\* reckon with each other's numbers and places.
LoadFor(c, x) ==
  Overtaking(c, [op |-> "load", exam |-> x, fresh |-> TRUE], {"load", "loaded"})

Wrote(c, next) ==
  Overtaking(c, next, {"loaded", "edited"} \cup (IF call[c].op \in Moves THEN Moves ELSE {}))

\* exam-scope.js clears the screen and keeps the list; the OJ's page takes an error away.
WhileExamLoads ==
  IF site = "home" \/ ~view.known THEN "loading" ELSE "list"

Step(c, next) ==
  /\ call' = [call EXCEPT ![c] = next]
  /\ UNCHANGED <<site, scopes, objects, view, presses, slipped>>

PressFor(c, next) ==
  /\ call[c] = NoCall /\ presses < MaxPresses
  /\ call' = [call EXCEPT ![c] = next] /\ presses' = presses + 1
  /\ UNCHANGED <<site, scopes, objects, view, slipped>>

LoadExam(c, x, v) ==
  /\ call' = LoadFor(c, x)
  /\ view' = [v EXCEPT !.shown = WhileExamLoads]
  /\ objects' = Collected(objects, view.list, call')
  /\ UNCHANGED <<site, scopes, slipped>>

\* The OJ's page loads only when the exam changes.
SelectExam(c) ==
  /\ call[c] = NoCall /\ presses < MaxPresses
  /\ \E x \in Exam : /\ site = "oj" => x # view.exam
                     /\ LoadExam(c, x, [view EXCEPT !.exam = x])
  /\ presses' = presses + 1

ReadExam(c) ==
  /\ call[c].op = "load"
  /\ \E order \in Lists!SeqOf(Subject, Cardinality(Subject)) :
       LET rows == [i \in DOMAIN order |-> <<order[i], scopes[order[i]].val>>] IN
       /\ IsStored(rows, call[c].exam)
       /\ Step(c, [op |-> "loaded", exam |-> call[c].exam, fresh |-> call[c].fresh, rows |-> rows])

\* The objects of an answer, copy k.
ListOf(rows, k) == [i \in 1..Len(rows) |-> [copy |-> k, of |-> rows[i][1]]]
ValuesOf(rows) ==
  [s \in Subject |-> IF \E i \in 1..Len(rows) : rows[i][1] = s
                     THEN rows[CHOOSE i \in 1..Len(rows) : rows[i][1] = s][2] ELSE Blank]

\* Every answer is shown: no counter tells which request it belongs to.
ShowExam(c) ==
  LET rows == call[c].rows IN
  /\ call[c].op = "loaded"
  /\ \E k \in (1..MaxCopy) \ Held(view.list, call) :
       /\ \A l \in 1..(k - 1) : l \in Held(view.list, call)
       /\ view' = [view EXCEPT !.list = ListOf(rows, k), !.known = TRUE,
                    !.shown = IF site = "oj" /\ @ = "error" THEN @ ELSE "list"]
       /\ call' = Overtaking(c, NoCall, Edits \cup Moves)
       /\ objects' = Collected([objects EXCEPT ![k] = ValuesOf(rows)], ListOf(rows, k), call')
  /\ slipped' = IF call[c].fresh THEN call[c].exam # view.exam ELSE TRUE
  /\ UNCHANGED <<site, scopes, presses>>

LoadFails(c) ==
  /\ call[c].op = "load"
  /\ view' = IF site = "home" THEN [view EXCEPT !.shown = "error"]
             ELSE [view EXCEPT !.shown = "error", !.known = FALSE, !.list = <<>>]
  /\ call' = [call EXCEPT ![c] = NoCall]
  /\ objects' = Collected(objects, view'.list, call')
  /\ slipped' = TRUE
  /\ UNCHANGED <<site, scopes, presses>>

-----------------------------------------------------------------------------
(* The editor's operations.                                                *)

\* onRenameSubject(), the form of a scope
PressEdit(c) ==
  /\ view.shown = "list"
  /\ \E i \in 1..Len(view.list), f \in {"name", "text"}, v \in Value :
       LET item == view.list[i] IN
       /\ v[f] # Get(item)[f] /\ \A g \in {"name", "order", "text"} \ {f} : v[g] = Get(item)[g]
       /\ PressFor(c, [op |-> "edit", exam |-> view.exam, fresh |-> TRUE, item |-> item, to |-> v,
                    field |-> f])

\* Equal numbers are replaced by the two places, counted from 0.
Swapped(list, i, j) ==
  LET m == Get(list[i]).order
      n == Get(list[j]).order
  IN IF m = n THEN <<i - 1, j - 1>> ELSE <<m, n>>

\* onMoveSubject()
PressMove(c) ==
  /\ view.shown = "list"
  /\ \E i, j \in 1..Len(view.list) :
       /\ j \in {i - 1, i + 1}
       /\ i <= MaxOrder + 1 /\ j <= MaxOrder + 1
       /\ PressFor(c, [op |-> "move", exam |-> view.exam, fresh |-> TRUE, item |-> view.list[i],
                    other |-> view.list[j], i |-> i, j |-> j,
                    a |-> Swapped(view.list, i, j)[1], b |-> Swapped(view.list, i, j)[2],
                    tied |-> Get(view.list[i]).order = Get(view.list[j]).order])

\* onAddSubject()
PressAdd(c) ==
  /\ \E n \in 1..MaxName :
       PressFor(c, [op |-> "add", exam |-> view.exam, name |-> n, order |-> 0])

\* One request reaches the service: it is answered, its answer is lost, or it fails.
Answer(c, rows, next) ==
  /\ \/ scopes' = rows /\ call' \in {Wrote(c, next), Wrote(c, [op |-> "failed"])}
     \/ scopes' = scopes /\ call' = [call EXCEPT ![c] = [op |-> "failed"]]
  /\ objects' = Collected(objects, view.list, call')
  /\ UNCHANGED <<site, view, presses, slipped>>

\* update() and edit(): only what was sent is written.
ServeEdit(c) ==
  LET s == call[c].item.of
      f == call[c].field
  IN
  /\ call[c].op = "edit"
  /\ IF f = "name" /\ Taken(scopes[s].exam, call[c].to.name, {s}) THEN Step(c, [op |-> "failed"])
     ELSE Answer(c, [scopes EXCEPT ![s].val[f] = call[c].to[f]], [call[c] EXCEPT !.op = "edited"])

\* The item's number, and when that is answered the other's.
ServeMove(c) ==
  /\ call[c].op \in {"move", "half"}
  /\ IF call[c].op = "move"
     THEN Answer(c, [scopes EXCEPT ![call[c].item.of].val.order = call[c].b],
                 [call[c] EXCEPT !.op = "half"])
     ELSE Answer(c, [scopes EXCEPT ![call[c].other.of].val.order = call[c].a],
                 [call[c] EXCEPT !.op = "moved"])

\* create() reads the last number, then inserts.
ServeLast(c) ==
  /\ call[c].op = "add"
  /\ IF Taken(call[c].exam, call[c].name, {}) THEN Step(c, [op |-> "failed"])
     ELSE \E n \in 0..(MaxOrder - 1) :
            /\ IsLastOrder(n, call[c].exam)
            /\ Step(c, [call[c] EXCEPT !.op = "place", !.order = n + 1])

ServeAdd(c) ==
  /\ call[c].op = "place"
  /\ IF Taken(call[c].exam, call[c].name, {}) THEN Step(c, [op |-> "failed"])
     ELSE /\ Of("NONE") # {}
          /\ Answer(c, [scopes EXCEPT ![CHOOSE s \in Of("NONE") : TRUE] =
                          [exam |-> call[c].exam,
                           val |-> [name |-> call[c].name, order |-> call[c].order, text |-> 0]]],
                    [call[c] EXCEPT !.op = "added"])

Put(o, f, x) == [objects EXCEPT ![o.copy][o.of][f] = x]

\* The home page changes the object it was pressed for, whether the list still holds it.
FinishEdit(c) ==
  LET o == call[c].item
      f == call[c].field
  IN
  /\ call[c].op = "edited"
  /\ IF site = "oj" THEN LoadExam(c, call[c].exam, view) /\ presses' = presses
     ELSE /\ view' = [view EXCEPT !.shown = "list"]
          /\ call' = [call EXCEPT ![c] = NoCall]
          /\ objects' = Collected(Put(o, f, call[c].to[f]), view.list, call')
          /\ slipped' = (slipped \/ ~call[c].fresh)
          /\ UNCHANGED <<site, scopes, presses>>

\* Two splices: one takes the item's old place out, one puts the item in.
Spliced(list, i, j, o) ==
  LET rest == IF i <= Len(list) THEN Lists!RemoveAt(list, i) ELSE list
  IN Lists!InsertAt(rest, IF j <= Len(rest) THEN j ELSE Len(rest) + 1, o)

Renumbered_Kept(m) == objects

Renumbered(m) ==
  [objects EXCEPT ![m.item.copy][m.item.of].order = m.b, ![m.other.copy][m.other.of].order = m.a]

FinishMove(c) ==
  LET m == call[c]
      list == Spliced(view.list, m.i, m.j, m.item)
  IN
  /\ m.op = "moved"
  /\ IF site = "oj" THEN LoadExam(c, m.exam, view) /\ presses' = presses
     ELSE /\ view' = [view EXCEPT !.shown = "list", !.list = list]
          /\ call' = Overtaking(c, NoCall, Moves)
          /\ objects' = Collected(Renumbered(m), list, call')
          /\ slipped' = (slipped \/ ~m.fresh \/ m.tied)
          /\ UNCHANGED <<site, scopes, presses>>

FinishAdd(c) ==
  /\ call[c].op = "added"
  /\ LoadExam(c, IF site = "home" THEN view.exam ELSE call[c].exam, view)
  /\ presses' = presses

\* An alert; the list stays as it was.
Alert(c) ==
  /\ call[c].op = "failed"
  /\ call' = [call EXCEPT ![c] = NoCall]
  /\ slipped' = TRUE
  /\ UNCHANGED <<site, scopes, objects, view, presses>>

ExamNext ==
  \E c \in Call :
    \/ SelectExam(c) \/ ReadExam(c) \/ ShowExam(c) \/ LoadFails(c)
    \/ PressEdit(c) \/ PressMove(c) \/ PressAdd(c)
    \/ ServeEdit(c) \/ ServeMove(c) \/ ServeLast(c) \/ ServeAdd(c)
    \/ FinishEdit(c) \/ FinishMove(c) \/ FinishAdd(c) \/ Alert(c)

ExamSpec == ExamInit /\ [][ExamNext]_examVars

-----------------------------------------------------------------------------
(* Properties.                                                             *)

\* Two subjects of x have the same number.
Tied(x) == \E s, q \in Of(x) : s # q /\ scopes[s].val.order = scopes[q].val.order

ShownExam == [i \in DOMAIN view.list |-> <<view.list[i].of, Get(view.list[i])>>]

\* A page at rest is not loading, and its list is that of the exam selected, in the order
\* and with the values stored.  It may differ only after an answer that a newer request or
\* write overtook, a reload for an exam no longer selected, a failure, and on the home page a
\* change to a list replaced meanwhile, a move that another one ran beside, or equal numbers.
ShownIsStored ==
  (\A c \in Call : call[c] = NoCall) =>
    /\ view.shown # "loading"
    /\ view.shown = "list" /\ ~slipped /\ ~(site = "home" /\ Tied(view.exam))
         => IsStored(ShownExam, view.exam)
=============================================================================
