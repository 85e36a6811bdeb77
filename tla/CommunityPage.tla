--------------------------- MODULE CommunityPage ----------------------------
(***************************************************************************)
(* A post on the screen of one member: his vote and the comments, as       *)
(* CommunityService stores them and as the page shows them (renderDetail() *)
(* and renderComments() of community.js, CommunityPostPage and             *)
(* CommunityComments of the OJ, which do the same).                        *)
(*                                                                         *)
(* A vote reads the present one, then deletes it or writes another, then   *)
(* reads the sum it answers with.  Neither a button nor the form waits for *)
(* the answer to the press before, and no answer is checked for its age.   *)
(***************************************************************************)
EXTENDS Integers, FiniteSets

CONSTANTS
  Press,       \* requests of the page in flight
  MaxComments  \* bound: comments written

ASSUME CommunityPageAssumption == MaxComments \in Nat

Vote == {-1, 0, 1}

VARIABLES
  stored,    \* the member's vote (0 for no row) and the number of comments
  shown,     \* what the page shows of them
  press,     \* the requests in flight
  overlapped \* history: since the page was opened, a press did not wait for another, or failed

communityPageVars == <<stored, shown, press, overlapped>>

State == [vote : Vote, comments : 0..MaxComments]
NoPress == [op |-> "none"]
Presses ==
       {NoPress}
  \cup [op : {"vote"}, value : {-1, 1}]
  \cup [op : {"toggle"}, value : {-1, 1}, existing : Vote]
  \cup [op : {"sum"}]
  \cup [op : {"summed"}, vote : Vote]
  \cup [op : {"comment", "posted", "reload"}]
  \cup [op : {"reloaded"}, state : State]

CommunityPageTypeOK ==
  /\ stored \in State /\ shown \in State
  /\ press \in [Press -> Presses]
  /\ overlapped \in BOOLEAN

CommunityPageInit ==
  /\ stored = [vote |-> 0, comments |-> 0] /\ shown = stored
  /\ press = [p \in Press |-> NoPress]
  /\ overlapped = FALSE

Settled == \A p \in Press : press[p] = NoPress
Becomes(p, state) == press' = [press EXCEPT ![p] = state]

Toggled_Adds(vote, value) == vote + value

\* The same value once more takes the vote back.
Toggled(vote, value) == IF vote = value THEN 0 ELSE value

-----------------------------------------------------------------------------
(* votePost(), voteComment()                                               *)

PressVote(p) ==
  /\ press[p] = NoPress
  /\ \E v \in {-1, 1} : Becomes(p, [op |-> "vote", value |-> v])
  /\ overlapped' = (overlapped \/ ~Settled)
  /\ UNCHANGED <<stored, shown>>

ReadVote(p) ==
  /\ press[p].op = "vote"
  /\ Becomes(p, [op |-> "toggle", value |-> press[p].value, existing |-> stored.vote])
  /\ UNCHANGED <<stored, shown, overlapped>>

\* The delete fails where a press beside this one has deleted the row already.
WriteVote(p) ==
  LET t == press[p] IN
  /\ t.op = "toggle"
  /\ IF Toggled(t.existing, t.value) = 0 /\ stored.vote = 0
     THEN Becomes(p, NoPress) /\ UNCHANGED stored
     ELSE /\ stored' = [stored EXCEPT !.vote = Toggled(t.existing, t.value)]
          /\ Becomes(p, [op |-> "sum"])
  /\ UNCHANGED <<shown, overlapped>>

SumVotes(p) ==
  /\ press[p].op = "sum"
  /\ Becomes(p, [op |-> "summed", vote |-> stored.vote])
  /\ UNCHANGED <<stored, shown, overlapped>>

ShowVote(p) ==
  /\ press[p].op = "summed"
  /\ shown' = [shown EXCEPT !.vote = press[p].vote]
  /\ Becomes(p, NoPress)
  /\ UNCHANGED <<stored, overlapped>>

-----------------------------------------------------------------------------
(* addComment(), and the reload of the post that follows it.               *)

PressComment(p) ==
  /\ press[p] = NoPress
  /\ Becomes(p, [op |-> "comment"])
  /\ overlapped' = (overlapped \/ ~Settled)
  /\ UNCHANGED <<stored, shown>>

AddComment(p) ==
  /\ press[p].op = "comment"
  /\ stored.comments < MaxComments
  /\ stored' = [stored EXCEPT !.comments = @ + 1]
  /\ Becomes(p, [op |-> "posted"])
  /\ UNCHANGED <<shown, overlapped>>

AfterPost_Nothing(p) == Becomes(p, NoPress)

AfterPost(p) == Becomes(p, [op |-> "reload"])

ReloadPost(p) ==
  /\ press[p].op = "posted"
  /\ AfterPost(p)
  /\ UNCHANGED <<stored, shown, overlapped>>

GetPost(p) ==
  /\ press[p].op = "reload"
  /\ Becomes(p, [op |-> "reloaded", state |-> stored])
  /\ UNCHANGED <<stored, shown, overlapped>>

\* React's reload sets the post and its votes; community.js's only the comments and theirs.
ShowPost(p) ==
  /\ press[p].op = "reloaded"
  /\ \/ shown' = press[p].state
     \/ shown' = [shown EXCEPT !.comments = press[p].state.comments]
  /\ Becomes(p, NoPress)
  /\ UNCHANGED <<stored, overlapped>>

\* The page is opened anew, when nothing is in flight.
OpenPost ==
  /\ Settled
  /\ shown' = stored /\ overlapped' = FALSE
  /\ UNCHANGED <<stored, press>>

\* An error, before the request's write or after it, is not told, or told and no more.
PressFails(p) ==
  /\ press[p] # NoPress
  /\ Becomes(p, NoPress)
  /\ overlapped' = TRUE
  /\ UNCHANGED <<stored, shown>>

CommunityPageNext ==
  \/ \E p \in Press : \/ PressVote(p) \/ ReadVote(p) \/ WriteVote(p) \/ SumVotes(p) \/ ShowVote(p)
                      \/ PressComment(p) \/ AddComment(p) \/ ReloadPost(p) \/ GetPost(p) \/ ShowPost(p)
                      \/ PressFails(p)
  \/ OpenPost

CommunityPageSpec == CommunityPageInit /\ [][CommunityPageNext]_communityPageVars

-----------------------------------------------------------------------------
(* Properties.                                                             *)

\* Where presses wait for each other and are answered, the page at rest shows what is stored;
\* a press that overlaps another, or fails, may leave it on an older state until it is opened
\* again.
PageShowsStored == Settled /\ ~overlapped => shown = stored
=============================================================================
