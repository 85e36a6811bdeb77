---------------------------- MODULE DeployAgent -----------------------------
(***************************************************************************)
(* The deploy agent and an administrator's DeployPage.                     *)
(*                                                                         *)
(* What the agent knows of a deployment is one file: start() asks it       *)
(* whether one is running and then writes that one is; the deployment      *)
(* writes it after each of its steps; status() reads it, and holds a       *)
(* deployment dead that began too long ago.  Writing a file empties it     *)
(* first; whoever reads it then is told that nothing runs.                 *)
(***************************************************************************)
EXTENDS Naturals, FiniteSets

CONSTANTS
  Run,       \* deployments, named by the time of their start
  Chain,     \* chains of polls of the page
  StepMax,   \* STEP_TIMEOUT_MS, in units of time
  Stale,     \* STALE_RUN_MS, rounded down
  NoRun      \* no record

ASSUME DeployAssumption == StepMax \in Nat /\ Stale \in Nat /\ NoRun \notin Run

VARIABLES
  file,     \* .deploy-state.json
  run,      \* the deployments
  age,      \* the time since each began
  chain,    \* the page's polls
  screen,   \* what the page shows
  crossed,  \* history: a deployment began though another had not ended, or had its first
            \* record refused by the disk, which kept an older one's
  early     \* history: status() called a living deployment dead

deployVars == <<file, run, age, chain, screen, crossed, early>>

Steps == 4   \* git pull, build, config --services, up

Record == [of : Run, outcome : {"running", "ok", "failed"}]
IDLE == [of |-> NoRun, outcome |-> "idle"]   \* also what a file is worth that cannot be read
View == Record \cup {IDLE}

NotBegun == [pc |-> "none", step |-> 1, good |-> TRUE, elapsed |-> 0]
NoChain == [pc |-> "none"]

DeployTypeOK ==
  /\ file \in View
  /\ run \in [Run -> [pc : {"none", "starting", "exec", "record", "finish", "over", "dead"},
                      step : 1..Steps, good : BOOLEAN, elapsed : 0..StepMax]]
  /\ age \in [Run -> 0..(Stale + 1)]
  /\ chain \in [Chain -> {NoChain} \cup [pc : {"timer"}] \cup [pc : {"answered"}, view : View]]
  /\ screen \in View
  /\ {crossed, early} \subseteq BOOLEAN

DeployInit ==
  /\ file = IDLE
  /\ run = [r \in Run |-> NotBegun]
  /\ age = [r \in Run |-> 0]
  /\ chain = [h \in Chain |-> NoChain]
  /\ screen = IDLE
  /\ crossed = FALSE /\ early = FALSE

Alive(r) == run[r].pc \in {"starting", "exec", "record", "finish"}
Writing(r) == run[r].pc \in {"starting", "record", "finish"}

-----------------------------------------------------------------------------
(* status(), start()                                                       *)

Aged == file # IDLE /\ file.outcome = "running" /\ age[file.of] > Stale

Status == IF Aged THEN [file EXCEPT !.outcome = "failed"] ELSE file

\* What a call of status() may return.
Reads == {Status} \cup (IF \E r \in Run : Writing(r) THEN {IDLE} ELSE {})

CallsDead == Aged /\ Alive(file.of)

Refuses_Never(view) == FALSE

Refuses(view) == view.outcome = "running"

\* The record of the new deployment is still to be written.
Start(r) ==
  /\ run[r] = NotBegun
  /\ \E view \in Reads :
       /\ ~Refuses(view)
       /\ crossed' = (\/ crossed
                      \/ CallsDead
                      \/ \E q \in Run : run[q].pc = "starting"
                      \/ view = IDLE /\ \E q \in Run : Alive(q))
  /\ early' = (early \/ CallsDead)
  /\ run' = [run EXCEPT ![r].pc = "starting"]
  /\ UNCHANGED <<file, age, chain, screen>>

-----------------------------------------------------------------------------
(* run(): each step is executed, recorded, and followed by the next unless *)
(* it failed.                                                              *)

Execute(r) ==
  /\ run[r].pc = "exec"
  /\ \E ok \in BOOLEAN : run' = [run EXCEPT ![r].pc = "record", ![r].good = ok]
  /\ UNCHANGED <<file, age, chain, screen, crossed, early>>

ToSay(r) ==
  [of |-> r, outcome |-> IF run[r].pc # "finish" THEN "running"
                         ELSE IF run[r].good THEN "ok" ELSE "failed"]

After(r) ==
  CASE run[r].pc = "starting" -> [run[r] EXCEPT !.pc = "exec"]
    [] run[r].pc = "record" ->
         IF run[r].good /\ run[r].step < Steps
         THEN [run[r] EXCEPT !.pc = "exec", !.step = @ + 1, !.elapsed = 0]
         ELSE [run[r] EXCEPT !.pc = "finish"]
    [] OTHER -> [NotBegun EXCEPT !.pc = "over"]

\* write(); a failure, before or after the file was emptied, is logged and no more.
WriteRecord(r) ==
  /\ Writing(r)
  /\ file' \in {ToSay(r), file, IDLE}
  /\ run' = [run EXCEPT ![r] = After(r)]
  /\ crossed' = (crossed \/ (file' = file /\ file.of \notin {r, NoRun}))
  /\ UNCHANGED <<age, chain, screen, early>>

\* Time passes; no step outlives its timeout.
Tick ==
  /\ \A r \in Run : ~Writing(r) /\ (run[r].pc = "exec" => run[r].elapsed < StepMax)
  /\ \E r \in Run : run[r].pc # "none" /\ age[r] <= Stale
  /\ age' = [r \in Run |-> IF run[r].pc # "none" /\ age[r] <= Stale THEN age[r] + 1 ELSE age[r]]
  /\ run' = [r \in Run |-> IF run[r].pc = "exec" THEN [run[r] EXCEPT !.elapsed = @ + 1] ELSE run[r]]
  /\ UNCHANGED <<file, chain, screen, crossed, early>>

\* The agent's process stops, perhaps while it writes, and is started again.
Crash ==
  /\ \E r \in Run : Alive(r)
  /\ file' \in {file} \cup (IF \E r \in Run : Writing(r) THEN {IDLE} ELSE {})
  /\ run' = [r \in Run |-> IF Alive(r) THEN [NotBegun EXCEPT !.pc = "dead"] ELSE run[r]]
  /\ UNCHANGED <<age, chain, screen, crossed, early>>

-----------------------------------------------------------------------------
(* DeployPage                                                              *)

\* The page is opened, or its button was pressed, whatever start() answered: one more chain.
StartPolling(h) ==
  /\ chain[h] = NoChain
  /\ chain' = [chain EXCEPT ![h] = [pc |-> "timer"]]
  /\ UNCHANGED <<file, run, age, screen, crossed, early>>

\* A poll that fails, as when the API itself is replaced, changes nothing.
Poll(h) ==
  /\ chain[h].pc = "timer"
  /\ \E view \in Reads : chain' = [chain EXCEPT ![h] = [pc |-> "answered", view |-> view]]
  /\ early' = (early \/ CallsDead)
  /\ UNCHANGED <<file, run, age, screen, crossed>>

AsksAgain_Never(view) == FALSE

AsksAgain(view) == view.outcome = "running"

ShowStatus(h) ==
  /\ chain[h].pc = "answered"
  /\ screen' = chain[h].view
  /\ chain' = [chain EXCEPT ![h] = IF AsksAgain(@.view) THEN [pc |-> "timer"] ELSE NoChain]
  /\ UNCHANGED <<file, run, age, crossed, early>>

DeployNext ==
  \/ \E r \in Run : Start(r) \/ Execute(r) \/ WriteRecord(r)
  \/ \E h \in Chain : StartPolling(h) \/ Poll(h) \/ ShowStatus(h)
  \/ Tick \/ Crash

DeploySpec == DeployInit /\ [][DeployNext]_deployVars

-----------------------------------------------------------------------------
(* Properties.                                                             *)

\* Two deployments never run together - unless two requests asked before either wrote, one
\* asked while the file was empty, the one that ran could not write over its predecessor's
\* record, or it had taken longer than the time after which it is held dead, which its four
\* steps may.
OneDeployment == ~crossed => Cardinality({r \in Run : Alive(r)}) <= 1

\* When the page has stopped asking it shows the outcome on record of the deployment it
\* shows - unless a deployment was held dead before its end.  (A poll of the empty file ends
\* the asking too: the page then shows none.)
PageShowsOutcome ==
  (\A h \in Chain : chain[h] = NoChain) /\ screen # IDLE /\ ~early /\ file.of = screen.of
    => screen = Status
=============================================================================
