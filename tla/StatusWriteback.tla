-------------------------- MODULE StatusWriteback ---------------------------
(***************************************************************************)
(* The background task that follows a pushed commit's deployment on the    *)
(* dashboard's own bus and writes the outcome back to the commit           *)
(* (webhook.rs, spawn_status_writeback).  It is the one receiver here.     *)
(***************************************************************************)
EXTENDS DeploymentEvents

CONSTANTS
  Task,           \* the name of that receiver
  GithubAnswers   \* whether every write succeeds

ASSUME WritebackAssumption ==
  /\ Receiver = {Task} /\ ListensAt = "web" /\ Triggers = {"webhook"}
  /\ GithubAnswers \in BOOLEAN

VARIABLES
  pc,       \* "pending", "subscribe", "listen", "write", "done"
  about,    \* the status it is about to write
  commit    \* what the commit shows

vars == <<events, bus, pc, about, commit>>

\* CommitStatus::from_deployment, and the match in the loop.
CommitStatus ==
  [active |-> "pending", succeeded |-> "success", failed |-> "failure",
   rolled_back |-> "failure", cancelled |-> "error"]

Init ==
  /\ EventsInit
  /\ pc = "pending" /\ about = "pending" /\ commit = "none"

-----------------------------------------------------------------------------
\* set_commit_status is over the network: an error is logged, and that is all.
Written == commit' \in (IF GithubAnswers THEN {about} ELSE {about, commit})

WritePending ==
  /\ pc = "pending"
  /\ Written
  /\ pc' = "subscribe"
  /\ UNCHANGED <<events, bus, about>>

Subscribe ==
  /\ pc = "subscribe"
  /\ SubscribeTo(Task)
  /\ pc' = "listen"
  /\ UNCHANGED <<events, about, commit>>

\* Variant of Listen: any error is an outcome of failed.
ListenAssumingFailure ==
  /\ pc = "listen"
  /\ \/ /\ Hears(Task, "status") \/ Hears(Task, "line")
        /\ TakeHead(Task)
        /\ UNCHANGED <<pc, about>>
     \/ /\ Hears(Task, "finished") /\ TakeHead(Task)
        /\ about' = CommitStatus[row] /\ pc' = "write"
     \/ /\ Lagged(Task) \/ ClosedFor(Task)
        /\ Detach(Task)
        /\ about' = "failure" /\ pc' = "write"
  /\ UNCHANGED <<events, commit>>

\* Variant of Listen: the end of the channel is taken for a passing error.
ListenIgnoringClose ==
  /\ pc = "listen"
  /\ \/ /\ Hears(Task, "status") \/ Hears(Task, "line")
        /\ TakeHead(Task)
        /\ UNCHANGED <<pc, about>>
     \/ /\ Hears(Task, "finished") /\ TakeHead(Task)
        /\ about' = CommitStatus[row] /\ pc' = "write"
  /\ UNCHANGED <<events, commit>>

\* The outcome the event carries, or, on any error of recv(), the row's status.
Listen ==
  /\ pc = "listen"
  /\ \/ /\ Hears(Task, "status") \/ Hears(Task, "line")
        /\ TakeHead(Task)
        /\ UNCHANGED <<pc, about>>
     \/ /\ Hears(Task, "finished") /\ TakeHead(Task)
        /\ about' = CommitStatus[row] /\ pc' = "write"
     \/ /\ Lagged(Task) \/ ClosedFor(Task)
        /\ Detach(Task)
        /\ about' = CommitStatus[row] /\ pc' = "write"
  /\ UNCHANGED <<events, commit>>

Write ==
  /\ pc = "write"
  /\ Written
  /\ pc' = "done"
  /\ Detach(Task)
  /\ UNCHANGED <<events, about>>

\* The first write takes as long as GitHub takes; it may outlast the deployment
\* and the five seconds after it.
Close ==
  /\ CloseChannel
  /\ UNCHANGED <<pc, about, commit>>

Step == WritePending \/ Subscribe \/ Listen \/ Write
Engine == EngineStep /\ UNCHANGED <<pc, about, commit>>

Next == Engine \/ Close \/ Step

Spec == Init /\ [][Next]_vars

\* The runtime polls what is ready, the task ends, the timer fires, and GitHub
\* answers in the end, with a success or an error.
Fairness == /\ WF_vars(Engine) /\ WF_vars(EndRow /\ UNCHANGED <<pc, about, commit>>)
            /\ WF_vars(Close) /\ WF_vars(Step)
FairSpec == Spec /\ Fairness

-----------------------------------------------------------------------------
\* A commit never shows an outcome the deployment did not have, whichever way
\* the outcome came: by the event, or by the row after an error.
CommitTellsTheOutcome ==
  commit \in {"success", "failure", "error"} =>
    row \in Outcome /\ commit = CommitStatus[row]

\* The follower ends whenever it subscribed while the channel could still tell
\* it something: the event, the news that it was lost, or the close.
FollowerEnds == (pc = "listen" /\ engine # "closed") ~> pc = "done"

=============================================================================
