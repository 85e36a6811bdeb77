---------------------------- MODULE LiveVerdict -----------------------------
(***************************************************************************)
(* A submission's page and the verdict that reaches it: JudgeIngestService *)
(* publishes on a Redis channel, SubmissionGateway passes an update on to  *)
(* the room of the submission, the page (SubmissionPage and lib/socket.ts) *)
(* asks for the submission again.                                          *)
(*                                                                         *)
(* The page asks once when it opens and whenever it is told; nobody else   *)
(* asks.  It joins the room beside its first request, and the gateway lets *)
(* it in after a look at the database.                                     *)
(***************************************************************************)
EXTENDS Naturals, Sequences, FiniteSets

CONSTANTS
  Submission,
  Get,        \* requests of the page in flight
  MaxOpens,   \* bound: pages opened
  Nowhere     \* no page of a submission

ASSUME LiveVerdictAssumption == MaxOpens \in Nat /\ Nowhere \notin Submission

VARIABLES
  verdict,    \* the status of each submission
  due,        \* statuses written and not yet published
  bus,        \* updates on the channel, not yet at the gateway
  online,     \* the browser's one socket is connected
  packets,    \* join and leave on their way; while there is no connection, kept back
  checking,   \* joins the gateway is checking, by submission
  rooms,      \* rooms the socket is in
  page,       \* the submission on the screen
  shown,      \* the status on the screen
  get,        \* the page's requests
  opens,      \* pages opened
  missed,     \* history: the page may never be told
  slipped     \* history: the rooms may not be those of the page

liveVars == <<verdict, due, bus, online, packets, checking, rooms, page, shown, get, opens,
              missed, slipped>>
serverVars == <<verdict, due, bus>>
socketVars == <<online, packets, checking, rooms, slipped>>
pageVars == <<page, shown, get, opens>>

VerdictStatus == {"PENDING", "JUDGING", "FINAL"}
NoGet == [pc |-> "none"]
Gets == {NoGet} \cup [pc : {"asked"}] \cup [pc : {"answered"}, status : VerdictStatus, late : BOOLEAN]

LiveTypeOK ==
  /\ verdict \in [Submission -> VerdictStatus]
  /\ due \in [Submission -> SUBSET {"JUDGING", "FINAL"}]
  /\ bus \in [Submission -> 0..2]
  /\ packets \in Seq({"join", "leave"} \X Submission)
  /\ checking \in [Submission -> 0..MaxOpens]
  /\ rooms \in SUBSET Submission
  /\ page \in Submission \cup {Nowhere}
  /\ shown \in VerdictStatus \cup {"none"}
  /\ get \in [Get -> Gets]
  /\ opens \in 0..MaxOpens
  /\ {online, missed, slipped} \subseteq BOOLEAN

LiveInit ==
  /\ verdict = [s \in Submission |-> "PENDING"]
  /\ due = [s \in Submission |-> {}]
  /\ bus = [s \in Submission |-> 0]
  /\ online = TRUE /\ packets = <<>>
  /\ checking = [s \in Submission |-> 0]
  /\ rooms = {}
  /\ page = Nowhere /\ shown = "none"
  /\ get = [g \in Get |-> NoGet]
  /\ opens = 0
  /\ missed = FALSE /\ slipped = FALSE

-----------------------------------------------------------------------------
(* JudgeIngestService                                                      *)

\* The updateMany of markJudging(), the transaction of ingest().
Settle(s, status) ==
  /\ \/ status = "JUDGING" /\ verdict[s] = "PENDING"
     \/ status = "FINAL" /\ verdict[s] # "FINAL"
  /\ verdict' = [verdict EXCEPT ![s] = status]
  /\ due' = [due EXCEPT ![s] = @ \cup {status}]
  /\ UNCHANGED <<bus, socketVars, pageVars, missed>>

Announced_JudgingOnly(status) == IF status = "JUDGING" THEN 1 ELSE 0

Announced_Twice(status) == 2

Announced(status) == 1

PublishUpdate(s, status) ==
  /\ status \in due[s]
  /\ due' = [due EXCEPT ![s] = @ \ {status}]
  /\ bus' = [bus EXCEPT ![s] = @ + Announced(status)]
  /\ UNCHANGED <<verdict, socketVars, pageVars, missed>>

\* The process stops between the write and the publication, or Redis does not take it.
PublishFails(s, status) ==
  /\ status \in due[s]
  /\ due' = [due EXCEPT ![s] = @ \ {status}]
  /\ missed' = (missed \/ page = s)
  /\ UNCHANGED <<verdict, bus, socketVars, pageVars>>

-----------------------------------------------------------------------------
(* SubmissionGateway                                                       *)

Free == {g \in Get : get[g] = NoGet}

Hears(s) == page = s

\* afterInit(): to the room; the page of that submission asks again.
PassOn(s) ==
  /\ bus[s] > 0
  /\ bus' = [bus EXCEPT ![s] = @ - 1]
  /\ IF online /\ s \in rooms
     THEN /\ UNCHANGED missed
          /\ IF Hears(s) THEN \E g \in Free : get' = [get EXCEPT ![g] = [pc |-> "asked"]]
             ELSE UNCHANGED get
     ELSE UNCHANGED get /\ missed' = (missed \/ page = s)
  /\ UNCHANGED <<verdict, due, socketVars, page, shown, opens>>

\* The next packet arrives: a join is looked at, a leave is obeyed at once.
ReceivePacket ==
  /\ online /\ packets # <<>>
  /\ packets' = Tail(packets)
  /\ LET kind == Head(packets)[1]
         s == Head(packets)[2]
     IN IF kind = "join"
        THEN checking' = [checking EXCEPT ![s] = @ + 1] /\ UNCHANGED <<rooms, slipped>>
        ELSE /\ rooms' = rooms \ {s}
             /\ slipped' = (slipped \/ checking[s] > 0)
             /\ UNCHANGED checking
  /\ UNCHANGED <<serverVars, online, pageVars, missed>>

\* canAccessSubmission() has answered: the submission is the user's own.
JoinRoom(s) ==
  /\ checking[s] > 0
  /\ checking' = [checking EXCEPT ![s] = @ - 1]
  /\ rooms' = rooms \cup {s}
  /\ UNCHANGED <<serverVars, online, packets, pageVars, missed, slipped>>

\* ... or the question failed.
JoinFails(s) ==
  /\ checking[s] > 0
  /\ checking' = [checking EXCEPT ![s] = @ - 1]
  /\ slipped' = TRUE
  /\ UNCHANGED <<serverVars, online, packets, rooms, pageVars, missed>>

\* The socket loses its rooms, and what is on its way; afterwards nobody joins again.
Disconnect ==
  /\ online /\ online' = FALSE
  /\ packets' = <<>>
  /\ checking' = [s \in Submission |-> 0]
  /\ rooms' = {}
  /\ slipped' = (page # Nowhere)
  /\ UNCHANGED <<serverVars, pageVars, missed>>

Reconnect ==
  /\ ~online /\ online' = TRUE
  /\ UNCHANGED <<serverVars, packets, checking, rooms, slipped, pageVars, missed>>

-----------------------------------------------------------------------------
(* SubmissionPage                                                          *)

\* The two effects: refetch(), and subscribeToSubmission().
OpenPage(s) ==
  /\ page = Nowhere /\ opens < MaxOpens
  /\ page' = s /\ shown' = "none" /\ opens' = opens + 1
  /\ \E g \in Get : get' = [get EXCEPT ![g] = [pc |-> "asked"]]
  /\ packets' = Append(packets, <<"join", s>>)
  /\ missed' = FALSE
  /\ UNCHANGED <<serverVars, online, checking, rooms, slipped>>

Farewell_None(s) == <<>>

Farewell(s) == << <<"leave", s>> >>

\* The cleanup of the effect; answers still to come find no page.
LeavePage ==
  /\ page # Nowhere
  /\ packets' = packets \o Farewell(page)
  /\ page' = Nowhere /\ shown' = "none"
  /\ get' = [g \in Get |-> NoGet]
  /\ UNCHANGED <<serverVars, online, checking, rooms, slipped, opens, missed>>

AnswerGet(g) ==
  /\ get[g].pc = "asked"
  /\ get' = [get EXCEPT ![g] = [pc |-> "answered", status |-> verdict[page], late |-> FALSE]]
  /\ UNCHANGED <<serverVars, socketVars, page, shown, opens, missed>>

Older(a, b) == \/ a = "PENDING" /\ b # "PENDING"
               \/ a = "JUDGING" /\ b = "FINAL"

\* Whatever arrives is shown; late: an answer given after this one was shown before it.
ShowAnswer(g) ==
  /\ get[g].pc = "answered"
  /\ shown' = get[g].status
  /\ missed' = (missed \/ get[g].late)
  /\ get' = [h \in Get |-> IF h = g THEN NoGet
                           ELSE IF get[h].pc = "answered" /\ Older(get[h].status, get[g].status)
                           THEN [get[h] EXCEPT !.late = TRUE] ELSE get[h]]
  /\ UNCHANGED <<serverVars, socketVars, page, opens>>

\* The page shows the error from then on, whatever is answered later.
GetFails(g) ==
  /\ get[g].pc # "none"
  /\ get' = [get EXCEPT ![g] = NoGet]
  /\ missed' = TRUE
  /\ UNCHANGED <<serverVars, socketVars, page, shown, opens>>

LiveNext ==
  \/ \E s \in Submission : \/ \E status \in {"JUDGING", "FINAL"} :
                                Settle(s, status) \/ PublishUpdate(s, status) \/ PublishFails(s, status)
                           \/ PassOn(s) \/ JoinRoom(s) \/ JoinFails(s) \/ OpenPage(s)
  \/ \E g \in Get : AnswerGet(g) \/ ShowAnswer(g) \/ GetFails(g)
  \/ ReceivePacket \/ Disconnect \/ Reconnect \/ LeavePage

LiveSpec == LiveInit /\ [][LiveNext]_liveVars

-----------------------------------------------------------------------------
(* Properties.                                                             *)

Quiet ==
  /\ online /\ packets = <<>>
  /\ \A s \in Submission : due[s] = {} /\ bus[s] = 0 /\ checking[s] = 0
  /\ \A g \in Get : get[g] = NoGet

\* When nothing is on its way a page shows the verdict that is stored - unless an update
\* was not published, came before the page was let into the room or after it had lost it,
\* or its answer failed or was shown before an older one.
SettledPageIsFinal == Quiet /\ page # Nowhere /\ ~missed => shown = verdict[page]

\* When nothing is on its way the socket is in the room of its page and in no other -
\* unless a leave overtook the check of its join, a check failed, or the connection was
\* lost while a page was open.
RoomsArePages == Quiet /\ ~slipped => rooms = {page} \ {Nowhere}
=============================================================================
