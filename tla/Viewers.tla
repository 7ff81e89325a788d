------------------------------ MODULE Viewers ------------------------------
(***************************************************************************)
(* The readers at the far end of a stream: the dashboard's live panes      *)
(* (web/src/routes/deployments.rs, logs.rs, services.rs), the pages that   *)
(* read a stream once, the command line (cli/src/deploy_commands.rs,       *)
(* log_commands.rs) and the agent's tools (mcp/src/lib.rs).  What the      *)
(* stream carries is DeploymentWatch, LogStream and OutputLines; here is   *)
(* what its reader makes of it, of a stream that ends, stalls or breaks.   *)
(*                                                                         *)
(* One reader, of any kind.  Its lines differ in nothing but their number. *)
(***************************************************************************)
EXTENDS Naturals

CONSTANT MaxRead  \* the lines after which a bounded reader stops

ASSUME ViewersAssumption == MaxRead \in Nat \ {0}

Panes    == {"deployment pane", "journal pane", "rows"}
Commands == {"exec", "agent exec"}
Verdicts == {"deployment pane", "deployment page", "follow", "terminal"} \cup Commands
Kinds    == Panes \cup Verdicts \cup {"log page", "logs", "agent logs"}

VARIABLES
    kind,     \* what the reader is
    outcome,  \* how the deployment or the command turns out
    stream,   \* lines waiting, whether the verdict is sent, and how it ended
    reader,   \* "calling", "reading" or "over"
    count,    \* the lines a bounded reader has
    code,     \* the exit code it has: "none" stands for -1
    dirty,    \* a pane has something it has not rendered
    finished, \* ... and has seen the verdict
    due,      \* its tick, or the deadline of a bounded reader
    report,   \* what it says in the end; of a pane, that it is done
    listener, \* the command line's own artifact: "none", "up", "down", "left"
    fetch     \* external: the deployment's fetch of it

viewersVars == <<kind, outcome, stream, reader, count, code, dirty, finished, due, report,
                 listener, fetch>>
rest == <<kind, outcome, listener, fetch>>

Fresh == [line |-> FALSE, verdict |-> "none", end |-> "open"]

ViewersInit ==
    /\ kind \in Kinds
    /\ outcome \in {"success", "failure"}
    /\ stream = Fresh
    /\ reader = IF kind = "follow" THEN "calling" ELSE "reading"
    /\ count = 0 /\ code = IF kind = "terminal" THEN "success" ELSE "none"
    /\ dirty = FALSE /\ finished = FALSE /\ due = FALSE
    /\ report = "none"
    /\ listener = "none" /\ fetch = "none"

(***************************************************************************)
(* External: what the server sends.  Only journals and unit statuses go on *)
(* for ever; only a shell may end without a verdict.                       *)
(***************************************************************************)
Sends ==
    /\ stream.end = "open" /\ stream.verdict = "none" /\ ~stream.line
    /\ stream' = [stream EXCEPT !.line = TRUE]

SendsVerdict ==
    /\ stream.end = "open" /\ stream.verdict = "none"
    /\ kind \in Verdicts
    /\ outcome = "success" /\ listener # "none" => fetch = "found"
    /\ stream' = [stream EXCEPT !.verdict = "sent"]

Ends ==
    /\ stream.end = "open"
    /\ kind \in Verdicts \ {"terminal"} => stream.verdict # "none"
    /\ stream' = [stream EXCEPT !.end = "closed"]

Breaks ==
    /\ stream.end = "open"
    /\ stream' = [stream EXCEPT !.end = "broken"]

Upstream ==
    /\ reader = "reading"
    /\ Sends \/ SendsVerdict \/ Ends \/ Breaks
    /\ UNCHANGED <<reader, count, code, dirty, finished, due, report, rest>>

(* What next() gives: lines, the verdict, the end.  An error may overtake  *)
(* what had been sent.                                                     *)
GetsLine == stream.line /\ stream' = [stream EXCEPT !.line = FALSE]
GetsVerdict ==
    /\ ~stream.line /\ stream.verdict = "sent"
    /\ stream' = [stream EXCEPT !.verdict = "taken"]
GetsEnd == ~stream.line /\ stream.verdict # "sent" /\ stream.end = "closed" /\ UNCHANGED stream
GetsError == stream.end = "broken" /\ UNCHANGED stream

Says(answer) == reader' = "over" /\ report' = answer

(***************************************************************************)
(* The panes: a loop that folds frames and renders on a tick.              *)
(***************************************************************************)
\* Variant of Biased: whichever is ready.
Unbiased == TRUE

(* A tick that is due comes first, however many frames are waiting. *)
Biased == ~due

TickComes == reader = "reading" /\ kind \in Panes /\ ~due /\ due' = TRUE
             /\ UNCHANGED <<stream, reader, count, code, dirty, finished, report, rest>>

DeploymentTick ==
    /\ kind = "deployment pane" /\ due
    /\ due' = FALSE /\ dirty' = FALSE
    /\ IF finished THEN Says("done") ELSE UNCHANGED <<reader, report>>
    /\ UNCHANGED <<stream, finished>>

DeploymentFrame ==
    /\ kind = "deployment pane" /\ Biased
    /\ \/ GetsLine /\ dirty' = TRUE /\ UNCHANGED <<finished, reader, report>>
       \/ GetsVerdict /\ dirty' = TRUE /\ finished' = TRUE /\ UNCHANGED <<reader, report>>
       \/ GetsEnd /\ dirty' = FALSE /\ Says("done") /\ UNCHANGED finished
       \/ GetsError /\ dirty' = FALSE /\ Says("done") /\ UNCHANGED finished
    /\ UNCHANGED due

(* The journal's pane and the table of units leave what they have not      *)
(* rendered when their stream ends.                                        *)
JournalTick ==
    /\ kind = "journal pane" /\ due
    /\ due' = FALSE /\ dirty' = FALSE
    /\ UNCHANGED <<stream, finished, reader, report>>

JournalFrame ==
    /\ kind = "journal pane" /\ Biased
    /\ \/ GetsLine /\ dirty' = TRUE /\ UNCHANGED <<reader, report>>
       \/ (GetsEnd \/ GetsError) /\ Says("none") /\ UNCHANGED dirty
    /\ UNCHANGED <<due, finished>>

RowsTick ==
    /\ kind = "rows" /\ due
    /\ due' = FALSE /\ dirty' = FALSE
    /\ UNCHANGED <<stream, finished, reader, report>>

RowsFrame ==
    /\ kind = "rows" /\ Biased
    /\ \/ GetsLine /\ dirty' = TRUE /\ UNCHANGED <<reader, report>>
       \/ (GetsEnd \/ GetsError) /\ Says("none") /\ UNCHANGED dirty
    /\ UNCHANGED <<due, finished>>

Pane ==
    /\ reader = "reading"
    /\ DeploymentTick \/ DeploymentFrame \/ JournalTick \/ JournalFrame \/ RowsTick \/ RowsFrame
    /\ UNCHANGED <<count, code, rest>>

(* External: the browser's EventSource opens a stream that has ended once  *)
(* more; a page that was told it is done has no sse-close to tell it so.   *)
Reconnect ==
    /\ reader = "over" /\ kind \in Panes
    /\ stream' = Fresh /\ reader' = "reading"
    /\ dirty' = FALSE /\ finished' = FALSE /\ due' = FALSE
    /\ UNCHANGED <<count, code, report, rest>>

(***************************************************************************)
(* Readers of a bounded number of lines.                                   *)
(***************************************************************************)
OneMore == count' = count + 1 /\ IF count + 1 >= MaxRead THEN Says("read") ELSE UNCHANGED <<reader, report>>

(* collect_deployment_lines: no deadline, since a finished deployment's    *)
(* history is replayed and the stream closed.                              *)
CollectLines ==
    /\ kind = "deployment page"
    /\ \/ GetsLine /\ OneMore
       \/ (GetsVerdict \/ GetsEnd \/ GetsError) /\ Says("read") /\ UNCHANGED count

(* read_logs_once and stream_logs: by their deadlines, 10 and 20 seconds.  *)
ReadLogsOnce ==
    /\ kind = "log page"
    /\ \/ GetsLine /\ OneMore
       \/ (GetsEnd \/ GetsError) /\ Says("read") /\ UNCHANGED count
       \/ due /\ Says("read") /\ UNCHANGED <<stream, count>>

AgentLogs ==
    /\ kind = "agent logs"
    /\ \/ GetsLine /\ OneMore
       \/ (GetsEnd \/ GetsError) /\ Says("read") /\ UNCHANGED count
       \/ due /\ Says("read") /\ UNCHANGED <<stream, count>>

DeadlinePasses ==
    /\ reader = "reading" /\ kind \in {"log page", "agent logs"} /\ ~due /\ due' = TRUE
    /\ UNCHANGED <<stream, reader, count, code, dirty, finished, report, rest>>

Bounded ==
    /\ reader = "reading"
    /\ CollectLines \/ ReadLogsOnce \/ AgentLogs
    /\ UNCHANGED <<code, dirty, finished, due, rest>>

(***************************************************************************)
(* The command line, and the agent's run_command.                          *)
(***************************************************************************)
Exit == IF code = "success" THEN "success" ELSE "failure"

(* The deploy command: a local binary is served for as long as the process *)
(* lives; without --wait it has been queued before that is refused.        *)
QueueDeploy ==
    /\ kind = "follow" /\ reader = "calling"
    /\ \E local, wait \in BOOLEAN :
          /\ listener' = CASE ~local -> "none" [] local /\ wait -> "up" [] OTHER -> "left"
          /\ IF wait THEN reader' = "reading" /\ UNCHANGED report
             ELSE Says(IF local THEN "failure" ELSE "queued")
    /\ UNCHANGED <<kind, outcome, stream, count, code, dirty, finished, due, fetch>>

(* External: the server fetches the binary while it deploys.  A deployment *)
(* that fails may do so before.                                            *)
Fetch ==
    /\ listener # "none" /\ fetch = "none" /\ stream.verdict = "none"
    /\ fetch' = IF listener = "up" THEN "found" ELSE "refused"
    /\ outcome' = IF listener = "up" THEN outcome ELSE "failure"
    /\ UNCHANGED <<kind, stream, reader, count, code, dirty, finished, due, report, listener>>

Hangs == listener' = IF listener = "up" THEN "down" ELSE listener

\* Variant of FollowDeployment: a stream that ended well is taken for a deployment that did.
FollowToTheEnd ==
    /\ kind = "follow"
    /\ \/ GetsLine /\ UNCHANGED <<reader, report, listener>>
       \/ GetsVerdict /\ Says(outcome) /\ Hangs
       \/ (GetsEnd \/ GetsError) /\ Says("success") /\ Hangs
    /\ UNCHANGED code

FollowDeployment ==
    /\ kind = "follow"
    /\ \/ GetsLine /\ UNCHANGED <<reader, report, listener>>
       \/ GetsVerdict /\ Says(outcome) /\ Hangs
       \/ (GetsEnd \/ GetsError) /\ Says("failure") /\ Hangs
    /\ UNCHANGED code

Logs ==
    /\ kind = "logs"
    /\ \/ GetsLine /\ UNCHANGED <<reader, report>>
       \/ GetsEnd /\ Says("success")
       \/ GetsError /\ Says("failure")
    /\ UNCHANGED <<code, listener>>

Exec ==
    /\ kind = "exec"
    /\ \/ GetsLine /\ UNCHANGED <<reader, report, code>>
       \/ GetsVerdict /\ code' = outcome /\ UNCHANGED <<reader, report>>
       \/ GetsEnd /\ Says(Exit) /\ UNCHANGED code
       \/ GetsError /\ Says("failure") /\ UNCHANGED code
    /\ UNCHANGED listener

(* The agent's: an error is the end, and too much output is cut off, with  *)
(* the code as it then is.                                                 *)
AgentExec ==
    /\ kind = "agent exec"
    /\ \/ GetsLine /\ UNCHANGED <<reader, report, code>>
       \/ GetsLine /\ Says(Exit) /\ UNCHANGED code
       \/ GetsVerdict /\ code' = outcome /\ UNCHANGED <<reader, report>>
       \/ (GetsEnd \/ GetsError) /\ Says(Exit) /\ UNCHANGED code
    /\ UNCHANGED listener

(* The terminal starts from 0, so that a shell whose stream ends without   *)
(* an exit code has ended well.                                            *)
Terminal ==
    /\ kind = "terminal"
    /\ \/ GetsLine /\ UNCHANGED <<reader, report, code>>
       \/ GetsVerdict /\ code' = outcome /\ Says(outcome)
       \/ GetsEnd /\ Says(Exit) /\ UNCHANGED code
       \/ GetsError /\ Says("failure") /\ UNCHANGED code
    /\ UNCHANGED listener

Process ==
    /\ reader = "reading"
    /\ FollowDeployment \/ Logs \/ Exec \/ AgentExec \/ Terminal
    /\ UNCHANGED <<kind, outcome, count, dirty, finished, due, fetch>>

ViewersNext ==
    \/ Upstream \/ TickComes \/ Pane \/ Reconnect
    \/ DeadlinePasses \/ Bounded
    \/ QueueDeploy \/ Fetch \/ Process

(* The runtime polls what is ready, and time passes.  Nobody has to send.  *)
ViewersFair ==
    /\ WF_viewersVars(TickComes) /\ WF_viewersVars(Pane)
    /\ WF_viewersVars(DeadlinePasses) /\ WF_viewersVars(Bounded)

(***************************************************************************)
(* Properties.                                                             *)
(***************************************************************************)
(* What a reader reports is so, whatever its stream did: success only of a *)
(* deployment or a command that succeeded ("the process's exit status has  *)
(* to reflect whether the deploy actually worked", deploy_commands.rs),    *)
(* done only once everything that came has been rendered; and a binary     *)
(* that is pushed is there when the server comes for it ("the listener     *)
(* must outlive the deploy"), unless the stream that was followed broke or *)
(* nobody waited.                                                          *)
ReportsAreTrue ==
    /\ report = "success" /\ kind \in {"follow"} \cup Commands => outcome = "success"
    /\ report = "done" /\ reader = "over" => ~dirty
    /\ fetch = "refused" => stream.end = "broken" \/ listener = "left"

(* A pane shows what it has soon, however fast frames come ("a burst of    *)
(* frames can never starve the render tick"), and a page or a tool that    *)
(* reads a journal returns, though the target sends nothing.               *)
ViewsMoveOn ==
    /\ dirty ~> (~dirty \/ reader = "over")
    /\ kind \in {"log page", "agent logs"} ~> reader = "over"

=============================================================================
