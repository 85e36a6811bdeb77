---------------------------- MODULE JudgeContract ----------------------------
(***************************************************************************)
(* What the judging pipeline promises for each submission, without leases, *)
(* jobs or workers: it is queued, handed out, perhaps handed back, and     *)
(* decided once by whoever it was handed to - unless whoever decides may   *)
(* fail, which leaves it undecided.  JudgeLease implements it.             *)
(***************************************************************************)
CONSTANTS
  Sub, Verdict,
  Fallible   \* may whoever decides fail

VARIABLE item

Stage == {"absent", "accepted", "queued", "delivered", "deciding", "gone"}
Decided == Verdict \cup {"INTERNAL_ERROR"}

Move(s, from, to) == item[s] = from /\ item' = [item EXCEPT ![s] = to]

Init == item = [s \in Sub |-> "absent"]

Submit(s) == Move(s, "absent", "accepted")
Enqueue(s) == Move(s, "accepted", "queued")
Deliver(s) == Move(s, "queued", "delivered")
HandBack(s) == Move(s, "delivered", "queued")
StartDeciding(s) == Move(s, "delivered", "deciding")
Decide(s, v) == Move(s, "deciding", v)
Withdraw(s) == item[s] \notin {"absent", "gone"} /\ Move(s, item[s], "gone")

\* Those who decide fail, or die together: nothing is decided, and where a sweep had
\* handed the submission back meanwhile its job waits.
Falter ==
  /\ Fallible
  /\ item' \in [Sub -> Stage \cup Decided]
  /\ \A s \in Sub : item'[s] # item[s] =>
       item[s] = "deciding" /\ item'[s] \in {"queued", "delivered"}

Next ==
  \/ Falter
  \/ \E s \in Sub :
       \/ Submit(s) \/ Enqueue(s) \/ Deliver(s) \/ HandBack(s)
       \/ StartDeciding(s) \/ Withdraw(s)
       \/ \E v \in Decided : Decide(s, v)

Spec == Init /\ [][Next]_item
=============================================================================
